---- MODULE Spec2Model ----
(***************************************************************************)
(* Launch readiness resolver of anime-launcher-sdk (LauncherState::get and *)
(* LauncherState::get_from_config) for its three variants:                 *)
(*   "genshin"  src/src/games/genshin/states.rs                            *)
(*   "honkai"   src/src/games/honkai/states.rs                             *)
(*   "legacy"   src/src/genshin/states.rs                                  *)
(* One resolver call is a walk of pc from the entry point to "done"; each  *)
(* action is one check of the code and appends to `calls` every external   *)
(* provider, filesystem or environment query the check makes, with the     *)
(* answer it got.  Answers are chosen nondeterministically when the code   *)
(* asks for them.  `params` is the loaded Config together with the         *)
(* LauncherStateParams built from it; both entry points are public.        *)
(*                                                                         *)
(* The other components have specifications of their own over their own    *)
(* variables, each leaving the rest of the state untouched:                *)
(*   SpecFeatures  Version::features_in / Version::features (wine.rs)      *)
(*   SpecRegistry  Group::find_in, Version::find_in, get_downloaded        *)
(*   SpecLoad      the body of get_wine_versions / get_dxvk_versions       *)
(*   SpecCache     the #[cached] wrapper of the loader, with two callers   *)
(*   SpecSteam     get_proton_installs_as_wines (integrations/steam.rs)    *)
(*   SpecEnv       environment() and launched_from() (steam.rs)            *)
(*   SpecRunners   ComponentsLoader::get_wine_versions (loader.rs)         *)
(***************************************************************************)
EXTENDS Integers, Sequences, FiniteSets, TLC

\* ------------------------------------------------------------------ bounds
MaxVoices == 2
MaxServers == 2

\* ------------------------------------------------------- value domains
Variants == {"genshin", "honkai", "legacy"}
Entries == {"get", "get_from_config"}

\* VoiceLocale values used as a sample; "xx-xx" is a config string that
\* VoiceLocale::from_str does not recognise.
Locales == {"en-us", "ja-jp"}
BadLocale == "xx-xx"

\* config.game.wine.selected, with the managed flag of the selection
Selections == {"None", "Unmanaged", "Managed"}

\* anime_game_core VersionDiff variants matched by each variant's get
GenshinDiffTags == {"Latest", "Predownload", "Diff", "Outdated", "NotInstalled"}
HonkaiDiffTags == {"Latest", "Diff", "NotInstalled"}

\* JadeitePatchStatusVariant
PatchStatuses == {"Verified", "Unverified", "Broken", "Unsafe", "Concerning"}

\* A VersionDiff value: its variant and the provider call that produced it
\* (src = 0 for the game, src = k for the k-th selected voice package).
VersionDiff(tag, src) == [tag |-> tag, src |-> src]
NoDiff == [tag |-> "None", src |-> -1]

RECURSIVE SeqsOfLen(_, _)
SeqsOfLen(S, n) ==
    IF n = 0 THEN {<<>>}
    ELSE {Append(s, x) : s \in SeqsOfLen(S, n - 1), x \in S}

SeqsUpTo(S, n) == UNION {SeqsOfLen(S, k) : k \in 0..n}

VARIABLES
    variant,            \* which game's resolver is running
    entry,              \* entry point of the current call
    params,             \* Config / LauncherStateParams of the current call
    pc,                 \* position inside the call
    calls,              \* external queries made so far in this call
    managed,            \* `let mut managed` of get
    diff,               \* `let diff = game.try_get_diff()?`
    predownload_voice,  \* `let mut predownload_voice = Vec::new()`
    voice_i,            \* number of locales the voice loop has finished
    server_i,           \* number of mirrors the sync loop has tried
    metadata,           \* honkai: status carried by jadeite::get_metadata()
    result              \* what the call returned

resolverVars == <<variant, entry, params, pc, calls, managed, diff,
                  predownload_voice, voice_i, server_i, metadata, result>>

\* State of the component registry (components/wine.rs), used by the
\* registry specifications further down.
VARIABLES
    registry,           \* what get_groups(components) returns
    local_folder,       \* names for which folder.join(name).exists() holds
    query,              \* the registry operation applied and its arguments
    reply               \* what the operation returned

registryVars == <<registry, local_folder, query, reply>>

\* State of the catalog loader (components/loader.rs) and of Proton
\* discovery (integrations/steam.rs).
VARIABLES
    disk,               \* the catalog documents under the index path
    cache,              \* the memoization cache: entries [key, value]
    threads,            \* the position of every caller inside a load
    loads,              \* the loads that returned, in order of return
    candidates,         \* the candidate directories of a discovery run
    located,            \* whether SteamDir::locate() finds Steam's install
    readable,           \* whether every search root found can be read
    environ             \* the process environment: variable -> value

loaderVars == <<disk, cache, threads, loads>>
steamVars == <<candidates, located, readable, environ>>

vars == <<resolverVars, registryVars, loaderVars, steamVars>>

\* everything the resolver does not touch
outsideResolver == <<registryVars, loaderVars, steamVars>>
\* everything the registry operations do not touch
outsideRegistry == <<resolverVars, loaderVars, steamVars>>

\* Option<T>
None == [some |-> FALSE]
Some(x) == [some |-> TRUE, value |-> x]

\* anyhow::Result<T>
Ok(x) == [kind |-> "Ok", value |-> x]
Err == [kind |-> "Err"]
\* a call that does not return: a panic unwinds through it
Panic == [kind |-> "Panic"]

\* ------------------------------------------------------------ results
NoResult == [tag |-> "None", diff |-> NoDiff, voices |-> <<>>]
State(tag) == [tag |-> tag, diff |-> NoDiff, voices |-> <<>>]
StateWith(tag, d) == [tag |-> tag, diff |-> d, voices |-> <<>>]
Predownload(d, vs) == [tag |-> "PredownloadAvailable", diff |-> d, voices |-> vs]
\* mutation of Error: a provider's error is swallowed and the game launches
Error_Swallowed == State("Launch")

\* Err(..) of anyhow::Result
Error == State("Err")

\* the call unwound with a panic instead of returning
Panicked == State("Panic")

Call(op, arg, ans) == [op |-> op, arg |-> arg, ans |-> ans]

Bool(b) == IF b THEN "true" ELSE "false"

\* Continue inside the call at position p after making the queries cs.
Goto(p, cs) ==
    /\ pc' = p
    /\ calls' = calls \o cs
    /\ result' = result
    /\ UNCHANGED outsideResolver

\* Return r from the call after making the queries cs.
Return(r, cs) ==
    /\ pc' = "done"
    /\ calls' = calls \o cs
    /\ result' = r
    /\ UNCHANGED outsideResolver

\* ------------------------------------------------- shared pure helpers

\* Config::get_selected_wine: looks the configured selection up in the
\* component registry.  Without a selection it answers None; with one it
\* answers the registry's version (carrying the managed flag), None when
\* the registry has no such version, or the registry's load error.
GetSelectedWineAnswers(selected) ==
    IF selected = "None" THEN {"None"} ELSE {selected, "None", "Err"}

\* VoiceLocale::from_str as used by get_from_config
from_str(voice) == IF voice \in Locales THEN voice ELSE "None"

\* mutation of PrefixMissing: the negation of `managed` is lost
PrefixMissing_DroppedNot(drive_c, is_managed) == ~drive_c /\ is_managed

\* get: `!params.wine_prefix.join("drive_c").exists() && !managed`
PrefixMissing(drive_c, is_managed) == ~drive_c /\ ~is_managed

\* mutation of GameState: Outdated joins the Latest | Predownload arm
GameState_OutdatedContinues(d) ==
    CASE d.tag = "Diff" -> StateWith("GameUpdateAvailable", d)
      [] d.tag = "NotInstalled" -> StateWith("GameNotInstalled", d)
      [] OTHER -> NoResult

\* mutation of GameState: the NotInstalled arm returns GameOutdated
GameState_WrongArm(d) ==
    CASE d.tag = "Diff" -> StateWith("GameUpdateAvailable", d)
      [] d.tag = "Outdated" -> StateWith("GameOutdated", d)
      [] d.tag = "NotInstalled" -> StateWith("GameOutdated", d)
      [] OTHER -> NoResult

\* get: the arms of `match diff` that return a Game* state
GameState(d) ==
    CASE d.tag = "Diff" -> StateWith("GameUpdateAvailable", d)
      [] d.tag = "Outdated" -> StateWith("GameOutdated", d)
      [] d.tag = "NotInstalled" -> StateWith("GameNotInstalled", d)
      [] OTHER -> NoResult

\* mutation of VoiceState: an Outdated voice package does not stop the loop
VoiceState_OutdatedContinues(d) ==
    CASE d.tag = "Diff" -> StateWith("VoiceUpdateAvailable", d)
      [] d.tag = "NotInstalled" -> StateWith("VoiceNotInstalled", d)
      [] OTHER -> NoResult

\* get: the arms of the voice loop's `match diff` that return a Voice* state
VoiceState(d) ==
    CASE d.tag = "Diff" -> StateWith("VoiceUpdateAvailable", d)
      [] d.tag = "Outdated" -> StateWith("VoiceOutdated", d)
      [] d.tag = "NotInstalled" -> StateWith("VoiceNotInstalled", d)
      [] OTHER -> NoResult

\* mutation of PushPredownload: Latest diffs are pushed as well
PushPredownload_All(acc, d) == Append(acc, d)

\* get: `VersionDiff::Predownload { .. } => predownload_voice.push(diff)`
PushPredownload(acc, d) ==
    IF d.tag = "Predownload" THEN Append(acc, d) ELSE acc

\* mutation of TelemetryDisabled: a failed lookup counts as not disabled
TelemetryDisabled_FailClosed(answer) ==
    CASE answer = "None" -> TRUE
      [] answer = "Some" -> FALSE
      [] OTHER -> FALSE

\* get: telemetry::is_disabled(..).map(|r| r.is_none()).unwrap_or_else(|_| true)
\* answer "None": no domain resolved; "Some": a domain resolved; "Err"
TelemetryDisabled(answer) ==
    CASE answer = "None" -> TRUE
      [] answer = "Some" -> FALSE
      [] OTHER -> TRUE

\* mutation of FinalState: collected voice predownloads surface as well
FinalState_VoicesSurface(d, voices) ==
    IF d.tag = "Predownload" \/ voices # <<>>
      THEN Predownload(d, voices) ELSE State("Launch")

\* get: `if let VersionDiff::Predownload { .. } = diff { .. } else { Launch }`
FinalState(d, voices) ==
    IF d.tag = "Predownload" THEN Predownload(d, voices) ELSE State("Launch")

\* mutation of StatusState: an Unverified patch launches
StatusState_UnverifiedLaunches(status) ==
    CASE status = "Verified" -> State("Launch")
      [] status = "Unverified" -> State("Launch")
      [] status = "Broken" -> State("PatchBroken")
      [] status = "Unsafe" -> State("PatchUnsafe")
      [] OTHER -> State("PatchConcerning")

\* honkai get: `match metadata.games.hi3rd.global.get_status(version)`
StatusState(status) ==
    CASE status = "Verified" -> State("Launch")
      [] status = "Unverified" -> State("PatchNotVerified")
      [] status = "Broken" -> State("PatchBroken")
      [] status = "Unsafe" -> State("PatchUnsafe")
      [] OTHER -> State("PatchConcerning")

\* --------------------------------------------------------------- Init
NoParams == [selected |-> "None", voices |-> <<>>, servers |-> 0,
             use_patch |-> FALSE, telemetry_ignored |-> FALSE]

\* no resolver call is running
ResolverIdle ==
    /\ variant = "genshin"
    /\ entry = "get"
    /\ params = NoParams
    /\ pc = "idle"
    /\ calls = <<>>
    /\ managed = FALSE
    /\ diff = NoDiff
    /\ predownload_voice = <<>>
    /\ voice_i = 0
    /\ server_i = 0
    /\ metadata = "None"
    /\ result = NoResult

\* no registry operation has been applied
NoQuery == [op |-> "none"]
NoReply == [kind |-> "none"]
NoRegistry == <<>>

RegistryIdle ==
    /\ registry = NoRegistry
    /\ local_folder = {}
    /\ query = NoQuery
    /\ reply = NoReply

\* nothing was loaded and nobody is loading
NoCatalog == [readable |-> FALSE]
LoaderIdle ==
    /\ disk = NoCatalog
    /\ cache = {}
    /\ threads = <<>>
    /\ loads = <<>>

\* the variables of the environment the Steam integration reads
EnvNames == {"SteamEnv", "SteamDeck", "SteamOS"}
NoEnviron == [name \in EnvNames |-> None]

\* no discovery run was made
SteamIdle ==
    /\ candidates = <<>>
    /\ located = FALSE
    /\ readable = TRUE
    /\ environ = NoEnviron

Init ==
    /\ ResolverIdle
    /\ RegistryIdle
    /\ LoaderIdle
    /\ SteamIdle

\* The caller starts a resolver call from a freshly assembled context.
\* params.use_patch is use_patch (genshin), use_xlua_patch (legacy) or
\* apply_mfplat (honkai); honkai has neither voices nor patch servers.
Invoke ==
    /\ pc = "idle"
    /\ \E v \in Variants, e \in Entries, sel \in Selections,
          up \in BOOLEAN, ti \in BOOLEAN, n \in 0..MaxServers :
        \E vs \in (IF v = "honkai" THEN {<<>>}
                   ELSE IF e = "get" THEN SeqsUpTo(Locales, MaxVoices)
                   ELSE SeqsUpTo(Locales \cup {BadLocale}, MaxVoices)) :
          /\ v = "honkai" => n = 0
          /\ v = "legacy" => ~ti
          /\ variant' = v
          /\ entry' = e
          /\ params' = [selected |-> sel, voices |-> vs, servers |-> n,
                        use_patch |-> up, telemetry_ignored |-> ti]
          /\ pc' = IF e = "get" THEN "prefix" ELSE "from_config"
    /\ calls' = <<>>
    /\ managed' = FALSE
    /\ diff' = NoDiff
    /\ predownload_voice' = <<>>
    /\ voice_i' = 0
    /\ server_i' = 0
    /\ metadata' = "None"
    /\ result' = NoResult
    /\ UNCHANGED outsideResolver

\* The call has returned: its context and its result are dropped, nothing
\* of it is kept for the next call.
Discard ==
    /\ pc = "done"
    /\ variant' = "genshin"
    /\ entry' = "get"
    /\ params' = NoParams
    /\ pc' = "idle"
    /\ calls' = <<>>
    /\ managed' = FALSE
    /\ diff' = NoDiff
    /\ predownload_voice' = <<>>
    /\ voice_i' = 0
    /\ server_i' = 0
    /\ metadata' = "None"
    /\ result' = NoResult
    /\ UNCHANGED outsideResolver

\* ------------------------- games/genshin/states.rs (variant "genshin")

\* mutation of GenshinWineNotInstalled: the `None =>` arm is missing
GenshinWineNotInstalled_NoNoneArm(selected, builds) ==
    ~builds /\ selected # "Managed"

\* get_from_config: the guard of the `match &config.game.wine.selected`
\* arms that return WineNotInstalled
GenshinWineNotInstalled(selected, builds) ==
    \/ selected = "None"
    \/ (~builds /\ selected # "Managed")

\* get_from_config: runner check, parsing of config.game.voices, then get
GenshinFromConfig ==
    /\ pc = "from_config"
    /\ variant = "genshin"
    /\ \E builds \in BOOLEAN :
        LET cs == IF params.selected = "None" THEN <<>>
                  ELSE <<Call("builds_exists", 0, Bool(builds))>>
        IN  IF GenshinWineNotInstalled(params.selected, builds)
              THEN Return(State("WineNotInstalled"), cs)
            ELSE IF \E k \in 1..Len(params.voices) :
                        from_str(params.voices[k]) = "None"
              THEN Return(Error, cs)
            ELSE Goto("prefix", cs)
    /\ UNCHANGED <<variant, entry, params, managed, diff,
                   predownload_voice, voice_i, server_i, metadata>>

\* get: config.get_selected_wine()?, then the prefix check
ManagedPrefix(v) ==
    /\ pc = "prefix"
    /\ variant = v
    /\ \E w \in GetSelectedWineAnswers(params.selected), drive_c \in BOOLEAN :
        IF w = "Err"
          THEN /\ Return(Error, <<Call("get_selected_wine", 0, w)>>)
               /\ managed' = managed
          ELSE LET cs == <<Call("get_selected_wine", 0, w),
                           Call("drive_c_exists", 0, Bool(drive_c))>>
               IN  /\ managed' = (w = "Managed")
                   /\ IF PrefixMissing(drive_c, w = "Managed")
                        THEN Return(State("PrefixNotExists"), cs)
                        ELSE Goto("game", cs)
    /\ UNCHANGED <<variant, entry, params, diff, predownload_voice,
                   voice_i, server_i, metadata>>

GenshinPrefix == ManagedPrefix("genshin")

\* position after the voice loop has finished k locales
AfterVoice(k) == IF k < Len(params.voices) THEN "voice" ELSE "is_sync"

\* get: game.try_get_diff()? and the outer `match diff`
GameDiff(v, tags, next) ==
    /\ pc = "game"
    /\ variant = v
    /\ \E tag \in tags \cup {"Err"} :
        LET cs == <<Call("game_try_get_diff", 0, tag)>>
            d == VersionDiff(tag, 0)
        IN  IF tag = "Err"
              THEN Return(Error, cs) /\ diff' = diff
            ELSE /\ diff' = d
                 /\ IF GameState(d) # NoResult
                      THEN Return(GameState(d), cs)
                      ELSE Goto(next, cs)
    /\ UNCHANGED <<variant, entry, params, managed, predownload_voice,
                   voice_i, server_i, metadata>>

GenshinGameDiff == GameDiff("genshin", GenshinDiffTags, AfterVoice(0))

\* get: the queries that construct the k-th voice package, up to its diff:
\* with_locale, is_installed_in(game_path) and, when installed there,
\* VoicePackage::new on the package's folder. found is "absent" (not
\* installed in the game folder), "Some" or "None" (the answer of new).
VoiceConstruction(k, loc, found) ==
    <<Call("voice_with_locale", k, loc),
      Call("voice_is_installed_in", k, Bool(found # "absent"))>>
      \o (IF found = "absent" THEN <<>>
          ELSE <<Call("voice_new", k, found)>>)

\* get: one iteration of `for locale in params.selected_voices`
\* outcome "WithLocaleErr": VoicePackage::with_locale(..)? failed;
\* found "None": installed in the game folder but VoicePackage::new gave
\* None; "Err": voice_package.try_get_diff()? failed; otherwise the diff's
\* variant. A successful with_locale is logged with the locale of the
\* package.
VoiceLoop(v) ==
    /\ pc = "voice"
    /\ variant = v
    /\ voice_i < Len(params.voices)
    /\ \E out \in GenshinDiffTags \cup {"Err", "WithLocaleErr"},
          found \in {"absent", "Some", "None"} :
        LET k == voice_i + 1
            loc == params.voices[k]
            d == VersionDiff(out, k)
            made == VoiceConstruction(k, loc, found)
        IN  /\ voice_i' = k
            /\ CASE out = "WithLocaleErr" ->
                      /\ Return(Error, <<Call("voice_with_locale", k, "Err")>>)
                      /\ predownload_voice' = predownload_voice
                 [] found = "None" ->
                      /\ Return(Error, made)
                      /\ predownload_voice' = predownload_voice
                 [] out = "Err" ->
                      /\ Return(Error, made \o
                                  <<Call("voice_try_get_diff", k, "Err")>>)
                      /\ predownload_voice' = predownload_voice
                 [] OTHER ->
                      LET cs == made \o
                                  <<Call("voice_try_get_diff", k, out)>>
                      IN  /\ predownload_voice' =
                                 PushPredownload(predownload_voice, d)
                          /\ IF VoiceState(d) # NoResult
                               THEN Return(VoiceState(d), cs)
                               ELSE Goto(AfterVoice(k), cs)
    /\ UNCHANGED <<variant, entry, params, managed, diff, server_i, metadata>>

GenshinVoice == VoiceLoop("genshin")

\* get: `patch.is_sync(&params.patch_servers)?.is_none()`
PatchIsSync(v) ==
    /\ pc = "is_sync"
    /\ variant = v
    /\ \E ans \in {"Some", "None", "Err"} :
        LET cs == <<Call("patch_is_sync", 0, ans)>>
        IN  CASE ans = "Err" -> Return(Error, cs)
              [] ans = "None" /\ params.servers > 0 -> Goto("sync", cs)
              [] OTHER -> Goto("patch", cs)
    /\ UNCHANGED <<variant, entry, params, managed, diff, predownload_voice,
                   voice_i, server_i, metadata>>

GenshinIsSync == PatchIsSync("genshin")

\* the mirror loop without its break: every mirror is contacted
SyncStops_OnlyAtEnd(ok, tried, servers) == tried = servers

\* the mirror loop without its end: only a successful sync leaves it
SyncStops_OnlyOnSuccess(ok, tried, servers) == ok

\* get: `if patch.sync(server).is_ok() { break; }`
SyncStops(ok, tried, servers) == ok \/ tried = servers

\* get: one iteration of `for server in &params.patch_servers`
PatchSync(v) ==
    /\ pc = "sync"
    /\ variant = v
    /\ server_i < params.servers
    /\ \E ok \in BOOLEAN :
        /\ server_i' = server_i + 1
        /\ Goto(IF SyncStops(ok, server_i + 1, params.servers)
                  THEN "patch" ELSE "sync",
                <<Call("patch_sync", server_i + 1, IF ok THEN "Ok" ELSE "Err")>>)
    /\ UNCHANGED <<variant, entry, params, managed, diff, predownload_voice,
                   voice_i, metadata>>

GenshinSync == PatchSync("genshin")

\* get: the UnityPlayer patch check
\* outcome "PatchErr": patch.player_patch()? failed; "Err": is_applied(..)?
\* failed; "true"/"false": the answer of is_applied.
GenshinPatch ==
    /\ pc = "patch"
    /\ variant = "genshin"
    /\ IF ~params.use_patch
         THEN Goto("telemetry", <<>>)
         ELSE \E out \in {"PatchErr", "Err", "true", "false"} :
                CASE out = "PatchErr" ->
                       Return(Error, <<Call("player_patch", 0, "Err")>>)
                  [] out = "Err" ->
                       Return(Error, <<Call("player_patch", 0, "Ok"),
                                       Call("player_patch_is_applied", 0, "Err")>>)
                  [] out = "false" ->
                       Return(State("PlayerPatchAvailable"),
                              <<Call("player_patch", 0, "Ok"),
                                Call("player_patch_is_applied", 0, "false")>>)
                  [] OTHER ->
                       Goto("telemetry",
                            <<Call("player_patch", 0, "Ok"),
                              Call("player_patch_is_applied", 0, "true")>>)
    /\ UNCHANGED <<variant, entry, params, managed, diff, predownload_voice,
                   voice_i, server_i, metadata>>

\* get: `if !disabled { return Ok(Self::TelemetryNotDisabled); }`
GenshinTelemetryBlocks(answer, ignored) == ~TelemetryDisabled(answer)

\* get: the telemetry check and the final decision
GenshinTelemetry ==
    /\ pc = "telemetry"
    /\ variant = "genshin"
    /\ \E ans \in {"None", "Some", "Err"} :
        LET cs == <<Call("telemetry_is_disabled", 0, ans)>>
        IN  IF GenshinTelemetryBlocks(ans, params.telemetry_ignored)
              THEN Return(State("TelemetryNotDisabled"), cs)
              ELSE Return(FinalState(diff, predownload_voice), cs)
    /\ UNCHANGED <<variant, entry, params, managed, diff, predownload_voice,
                   voice_i, server_i, metadata>>

GenshinNext ==
    \/ GenshinFromConfig
    \/ GenshinPrefix
    \/ GenshinGameDiff
    \/ GenshinVoice
    \/ GenshinIsSync
    \/ GenshinSync
    \/ GenshinPatch
    \/ GenshinTelemetry

\* --------------------------- games/honkai/states.rs (variant "honkai")

\* get_from_config: the guards of the arms that return WineNotInstalled,
\* under LaunchedFrom::Steam and under LaunchedFrom::Independent
HonkaiWineNotInstalled(selected, steam, valid, builds) ==
    IF steam
      THEN (selected # "None" /\ ~valid) \/ selected = "None"
      ELSE (selected # "None" /\ ~builds) \/ selected = "None"

\* get_from_config: early get_selected_wine()?, the runner check of the
\* launch mode, then get
HonkaiFromConfig ==
    /\ pc = "from_config"
    /\ variant = "honkai"
    /\ \E w \in GetSelectedWineAnswers(params.selected),
          steam \in BOOLEAN, valid \in BOOLEAN, builds \in BOOLEAN :
        LET c1 == <<Call("get_selected_wine", 0, w)>>
            c2 == c1 \o <<Call("launched_from", 0,
                               IF steam THEN "Steam" ELSE "Independent")>>
            c3 == IF params.selected = "None" THEN c2
                  ELSE IF steam
                    THEN c2 \o <<Call("valid_selected_runner", 0, Bool(valid))>>
                  ELSE c2 \o <<Call("builds_exists", 0, Bool(builds))>>
        IN  IF w = "Err" THEN Return(Error, c1)
            ELSE IF HonkaiWineNotInstalled(params.selected, steam, valid, builds)
              THEN Return(State("WineNotInstalled"), c3)
            ELSE Goto("prefix", c3)
    /\ UNCHANGED <<variant, entry, params, managed, diff,
                   predownload_voice, voice_i, server_i, metadata>>

HonkaiPrefix == ManagedPrefix("honkai")

HonkaiGameDiff == GameDiff("honkai", HonkaiDiffTags, "patch")

\* get: the mfplat and jadeite checks that precede the telemetry check
\* mf: mfplat::is_applied(..)?; inst: jadeite::is_installed(..);
\* md: jadeite::get_metadata()? (the status it holds for the game version);
\* ver: jadeite::get_version(..)? compared with metadata.jadeite.version
HonkaiPatch ==
    /\ pc = "patch"
    /\ variant = "honkai"
    /\ \E mf \in {"Err", "true", "false"}, inst \in BOOLEAN,
          md \in PatchStatuses \cup {"Err"}, ver \in {"Err", "Older", "Current"} :
        LET c1 == IF params.use_patch
                    THEN <<Call("mfplat_is_applied", 0, mf)>> ELSE <<>>
            c2 == c1 \o <<Call("jadeite_is_installed", 0, Bool(inst))>>
            c3 == c2 \o <<Call("jadeite_get_metadata", 0, md)>>
            c4 == c3 \o <<Call("jadeite_get_version", 0, ver)>>
        IN  /\ IF params.use_patch /\ mf = "Err" THEN Return(Error, c1)
               ELSE IF params.use_patch /\ mf = "false"
                 THEN Return(State("MfplatPatchAvailable"), c1)
               ELSE IF ~inst THEN Return(State("PatchNotInstalled"), c2)
               ELSE IF md = "Err" THEN Return(Error, c3)
               ELSE IF ver = "Err" THEN Return(Error, c4)
               ELSE IF ver = "Older" THEN Return(State("PatchUpdateAvailable"), c4)
               ELSE Goto("telemetry", c4)
            /\ metadata' = IF (params.use_patch => mf = "true") /\ inst
                                /\ md # "Err"
                             THEN md ELSE metadata
    /\ UNCHANGED <<variant, entry, params, managed, diff, predownload_voice,
                   voice_i, server_i>>

\* mutation of HonkaiTelemetryBlocks: the telemetry_ignored test is inverted
HonkaiTelemetryBlocks_Inverted(answer, ignored) ==
    ~TelemetryDisabled(answer) /\ ignored

\* get: `if !disabled && !params.telemetry_ignored`
HonkaiTelemetryBlocks(answer, ignored) == ~TelemetryDisabled(answer) /\ ~ignored

\* get: the telemetry check, then the verification status of the patch
HonkaiTelemetry ==
    /\ pc = "telemetry"
    /\ variant = "honkai"
    /\ \E ans \in {"None", "Some", "Err"} :
        LET cs == <<Call("telemetry_is_disabled", 0, ans)>>
        IN  IF HonkaiTelemetryBlocks(ans, params.telemetry_ignored)
              THEN Return(State("TelemetryNotDisabled"), cs)
              ELSE Return(StatusState(metadata),
                          cs \o <<Call("get_status", 0, metadata)>>)
    /\ UNCHANGED <<variant, entry, params, managed, diff, predownload_voice,
                   voice_i, server_i, metadata>>

HonkaiNext ==
    \/ HonkaiFromConfig
    \/ HonkaiPrefix
    \/ HonkaiGameDiff
    \/ HonkaiPatch
    \/ HonkaiTelemetry

\* --------------------------------- genshin/states.rs (variant "legacy")

\* get_from_config: `!config.game.wine.builds.join(&wine.name).exists()
\* && !wine.managed` for Some(wine), and the else branch for None
LegacyWineNotInstalled(wine, builds) ==
    \/ wine = "None"
    \/ (~builds /\ wine # "Managed")

\* Version::to_wine: `tracing::info!(.., self.files.wine64.as_ref()
\* .unwrap(), self.files.wineserver.as_ref().unwrap())`. The arguments are
\* evaluated when a subscriber has INFO enabled (info); files is "full"
\* when the version names both binaries. The versions Proton discovery
\* builds, the managed ones, name neither.
ToWineUnwraps(wine, info, files) ==
    info /\ (wine = "Managed" \/ files = "partial")

\* get_from_config: wine existence, the conversion of the runner with
\* to_wine (which reads the runner's features, through get_groups when the
\* runner carries none of its own, "Unasked" otherwise, and ignores an
\* error), parsing of config.game.voices, then get
LegacyFromConfig ==
    /\ pc = "from_config"
    /\ variant = "legacy"
    /\ \E w \in GetSelectedWineAnswers(params.selected), builds \in BOOLEAN,
          info \in BOOLEAN, files \in {"full", "partial"},
          groups \in {"Ok", "Err", "Panic", "Unasked"} :
        LET c1 == <<Call("get_selected_wine", 0, w)>>
            c2 == IF w = "None" THEN c1
                  ELSE c1 \o <<Call("builds_exists", 0, Bool(builds))>>
            c3 == IF groups = "Unasked" THEN c2
                  ELSE c2 \o <<Call("get_groups", 0, groups)>>
        IN  IF w = "Err" THEN Return(Error, c1)
            ELSE IF LegacyWineNotInstalled(w, builds)
              THEN Return(State("WineNotInstalled"), c2)
            ELSE IF ToWineUnwraps(w, info, files)
              THEN Return(Panicked, c2)
            ELSE IF groups = "Panic"
              THEN Return(Panicked, c3)
            ELSE IF \E k \in 1..Len(params.voices) :
                        from_str(params.voices[k]) = "None"
              THEN Return(Error, c3)
            ELSE Goto("prefix", c3)
    /\ UNCHANGED <<variant, entry, params, managed, diff,
                   predownload_voice, voice_i, server_i, metadata>>

\* get: `if !params.wine_prefix.join("drive_c").exists()`
LegacyPrefix ==
    /\ pc = "prefix"
    /\ variant = "legacy"
    /\ \E drive_c \in BOOLEAN :
        LET cs == <<Call("drive_c_exists", 0, Bool(drive_c))>>
        IN  IF ~drive_c
              THEN Return(State("PrefixNotExists"), cs)
              ELSE Goto("migration", cs)
    /\ UNCHANGED <<variant, entry, params, managed, diff, predownload_voice,
                   voice_i, server_i, metadata>>

\* get: migration of the pre-3.6 audio folder, asked before the game diff:
\* game.is_installed(), and for an installed game whether the old audio
\* folder exists
LegacyMigration ==
    /\ pc = "migration"
    /\ variant = "legacy"
    /\ \E installed \in BOOLEAN, old \in BOOLEAN :
        LET cs == <<Call("game_is_installed", 0, Bool(installed))>>
                    \o (IF installed
                          THEN <<Call("old_audio_folder_exists", 0, Bool(old))>>
                          ELSE <<>>)
        IN  IF installed /\ old
              THEN Return(State("FolderMigrationRequired"), cs)
              ELSE Goto("game", cs)
    /\ UNCHANGED <<variant, entry, params, managed, diff, predownload_voice,
                   voice_i, server_i, metadata>>

LegacyGameDiff == GameDiff("legacy", GenshinDiffTags, AfterVoice(0))

LegacyVoice == VoiceLoop("legacy")

LegacyIsSync == PatchIsSync("legacy")

LegacySync == PatchSync("legacy")

\* get: the UnityPlayer patch, the xlua patch and the final decision
\* up: unity_player_patch()? then is_applied(..)?; xl: the same for xlua
LegacyPatch ==
    /\ pc = "patch"
    /\ variant = "legacy"
    /\ \E up \in {"PatchErr", "Err", "true", "false"},
          xl \in {"PatchErr", "Err", "true", "false"} :
        LET c1 == IF up = "PatchErr"
                    THEN <<Call("unity_player_patch", 0, "Err")>>
                    ELSE <<Call("unity_player_patch", 0, "Ok"),
                           Call("unity_player_patch_is_applied", 0, up)>>
            c2 == IF ~params.use_patch THEN c1
                  ELSE IF xl = "PatchErr"
                    THEN c1 \o <<Call("xlua_patch", 0, "Err")>>
                  ELSE c1 \o <<Call("xlua_patch", 0, "Ok"),
                               Call("xlua_patch_is_applied", 0, xl)>>
        IN  IF up \in {"PatchErr", "Err"} THEN Return(Error, c1)
            ELSE IF up = "false"
              THEN Return(State("UnityPlayerPatchAvailable"), c1)
            ELSE IF params.use_patch /\ xl \in {"PatchErr", "Err"}
              THEN Return(Error, c2)
            ELSE IF params.use_patch /\ xl = "false"
              THEN Return(State("XluaPatchAvailable"), c2)
            ELSE Return(FinalState(diff, predownload_voice), c2)
    /\ UNCHANGED <<variant, entry, params, managed, diff, predownload_voice,
                   voice_i, server_i, metadata>>

LegacyNext ==
    \/ LegacyFromConfig
    \/ LegacyPrefix
    \/ LegacyMigration
    \/ LegacyGameDiff
    \/ LegacyVoice
    \/ LegacyIsSync
    \/ LegacySync
    \/ LegacyPatch

Next ==
    \/ Invoke
    \/ Discard
    \/ GenshinNext
    \/ HonkaiNext
    \/ LegacyNext

Spec == Init /\ [][Next]_vars

\* ================================================ component registry
\* components/wine.rs: groups of runner versions and the operations on them.
\* A group is [name, features, versions, managed], a version [name,
\* features]; the title, uri and files of a version are read by none of the
\* operations below.

\* impl Default for Features
DefaultFeatures ==
    [bundle |-> "None", need_dxvk |-> TRUE, compact_launch |-> FALSE,
     prefix_subdir |-> "None", command |-> "None", env |-> {}]

\* features written on a version and on a group of a catalog; they differ
\* from the defaults, and from each other in more than one field
VersionFeatures ==
    [DefaultFeatures EXCEPT !.need_dxvk = FALSE,
                            !.env = {<<"WINEARCH", "win64">>}]
GroupFeatures ==
    [DefaultFeatures EXCEPT !.compact_launch = TRUE,
                            !.command = "wrapper %build%/wine",
                            !.env = {<<"WINEESYNC", "1">>}]

\* bounds of the registries drawn by Init
MaxGroups == 2
MaxVersions == 2

\* Vec<T> of at most n elements of S
ListsUpTo(S, n) == UNION {[1 .. k -> S] : k \in 0 .. n}

VersionsOf(names, features) == [name : names, features : features]
GroupsOf(names, features, versions, flags) ==
    [name : names, features : features,
     versions : ListsUpTo(versions, MaxVersions), managed : flags]
Registries(groups) == ListsUpTo(groups, MaxGroups)

\* the versions of a registry, each with the group it was taken from
VersionsIn(groups) ==
    {<<g, v>> \in (DOMAIN groups) \X (1 .. MaxVersions) :
        v \in DOMAIN groups[g].versions}

\* Version::find_group: the first group holding a version of this name
find_group(version, groups) ==
    LET holds(g) == \E v \in DOMAIN groups[g].versions :
                        groups[g].versions[v].name = version.name
        found == {g \in DOMAIN groups : holds(g)}
    IN  IF found = {} THEN None
        ELSE Some(groups[CHOOSE g \in found : \A h \in found : g <= h])

\* features_in with defaults substituted where both are absent
features_in_Defaulting(version, group) ==
    IF version.features.some THEN version.features
    ELSE IF group.features.some THEN group.features
    ELSE Some(DefaultFeatures)

\* Version::features_in
features_in(version, group) ==
    IF version.features.some THEN version.features
    ELSE IF group.features.some THEN group.features
    ELSE None

\* Version::features; got is the outcome of get_groups(components), which
\* is asked only when the version has no features of its own
features(version, got) ==
    IF version.features.some THEN Ok(version.features)
    ELSE IF got.kind # "Ok" THEN got
    ELSE LET group == find_group(version, got.value)
         IN  IF group.some THEN Ok(group.value.features) ELSE Ok(None)

\* what get_groups(components) may do for a registry: answer its groups,
\* answer an error, or panic in the loader it runs
GetGroupsAnswers(groups) == {Ok(groups), Err, Panic}

\* the registries the feature operations are applied to: a build without
\* features of its own and one with, in groups with and without features
FeatureRegistries ==
    Registries(GroupsOf({"wine-ge"}, {None, Some(GroupFeatures)},
                        VersionsOf({"build-1"}, {None})
                          \cup VersionsOf({"build-2"},
                                          {Some(VersionFeatures)}),
                        {FALSE}))

InitFeatures ==
    /\ ResolverIdle
    /\ LoaderIdle
    /\ SteamIdle
    /\ registry \in FeatureRegistries
    /\ local_folder = {}
    /\ query = NoQuery
    /\ reply = NoReply

\* version.features_in(&group) for a version of the registry
FeaturesIn ==
    /\ query = NoQuery
    /\ \E gv \in VersionsIn(registry), g \in DOMAIN registry :
        /\ query' = [op |-> "features_in", owner |-> gv[1],
                     version |-> gv[2], group |-> g]
        /\ reply' = features_in(registry[gv[1]].versions[gv[2]], registry[g])
    /\ UNCHANGED <<outsideRegistry, registry, local_folder>>

\* version.features(components) for a version of the registry
FeaturesOf ==
    /\ query = NoQuery
    /\ \E gv \in VersionsIn(registry), got \in GetGroupsAnswers(registry) :
        /\ query' = [op |-> "features", owner |-> gv[1],
                     version |-> gv[2], group |-> 0]
        /\ reply' = features(registry[gv[1]].versions[gv[2]], got)
    /\ UNCHANGED <<outsideRegistry, registry, local_folder>>

NextFeatures ==
    \/ FeaturesIn
    \/ FeaturesOf

SpecFeatures == InitFeatures /\ [][NextFeatures]_vars

\* ------------------------------------------- lookups and downloads
\* Group::find_in, Version::find_in and get_downloaded over the registry

\* the lists of groups these operations are applied to: a group may carry
\* the name of a version, and may be managed
LookupRegistries ==
    Registries(GroupsOf({"wine-ge", "build-1"}, {None},
                        VersionsOf({"build-1", "build-2"}, {None}),
                        BOOLEAN))

\* the names looked up
LookupNames == {"wine-ge", "build-1", "build-2", "soda"}

\* the entries a local folder may hold
FolderNames == {"build-1", "build-2"}

\* Version::is_downloaded_in / `folder.join(&version.name).exists()`
is_downloaded_in(version, folder) == version.name \in folder

holds_version(group, name) ==
    \E v \in DOMAIN group.versions : group.versions[v].name = name

\* a match on the group's own name only
group_matches_OwnName(group, name) == group.name = name

\* Group::find_in: `group.name == name || group.versions.iter().any(..)`
group_matches(group, name) == group.name = name \/ holds_version(group, name)

\* the first element of a list that passes a test, as Option
First(list, Test(_)) ==
    LET passing == {k \in DOMAIN list : Test(list[k])}
    IN  IF passing = {} THEN None
        ELSE Some(list[CHOOSE k \in passing : \A h \in passing : k <= h])

\* Group::find_in; got is the outcome of get_groups(components)
group_find_in(got, name) ==
    IF got.kind # "Ok" THEN got
    ELSE Ok(First(got.value, LAMBDA group : group_matches(group, name)))

\* Version::find_in
version_find_in(got, name) ==
    IF got.kind # "Ok" THEN got
    ELSE LET group == First(got.value,
                            LAMBDA g : holds_version(g, name))
         IN  IF ~group.some THEN Ok(None)
             ELSE Ok(First(group.value.versions,
                           LAMBDA version : version.name = name))

\* the filter applied to managed groups too
downloaded_of_Filtering(group, folder) ==
    [group EXCEPT !.versions =
        SelectSeq(group.versions,
                  LAMBDA version : is_downloaded_in(version, folder))]

\* get_downloaded: what becomes of one group
downloaded_of(group, folder) ==
    IF group.managed THEN group
    ELSE [group EXCEPT !.versions =
            SelectSeq(group.versions,
                      LAMBDA version : is_downloaded_in(version, folder))]

\* get_downloaded: managed groups are pushed as they are, other groups
\* when a version is left
get_downloaded(got, folder) ==
    IF got.kind # "Ok" THEN got
    ELSE Ok(SelectSeq([g \in DOMAIN got.value |->
                          downloaded_of(got.value[g], folder)],
                      LAMBDA group : group.managed \/ group.versions # <<>>))

InitRegistry ==
    /\ ResolverIdle
    /\ LoaderIdle
    /\ SteamIdle
    /\ registry \in LookupRegistries
    /\ local_folder = {}
    /\ query = NoQuery
    /\ reply = NoReply

\* Group::find_in(components, name)
GroupFindIn ==
    /\ query = NoQuery
    /\ \E name \in LookupNames, got \in GetGroupsAnswers(registry) :
        /\ query' = [op |-> "Group::find_in", name |-> name]
        /\ reply' = group_find_in(got, name)
    /\ UNCHANGED <<outsideRegistry, registry, local_folder>>

\* Version::find_in(components, name)
VersionFindIn ==
    /\ query = NoQuery
    /\ \E name \in LookupNames, got \in GetGroupsAnswers(registry) :
        /\ query' = [op |-> "Version::find_in", name |-> name]
        /\ reply' = version_find_in(got, name)
    /\ UNCHANGED <<outsideRegistry, registry, local_folder>>

\* get_downloaded(components, folder) for a folder holding some entries
GetDownloaded ==
    /\ query = NoQuery
    /\ \E folder \in SUBSET FolderNames, got \in GetGroupsAnswers(registry) :
        /\ local_folder' = folder
        /\ query' = [op |-> "get_downloaded", name |-> ""]
        /\ reply' = get_downloaded(got, folder)
    /\ UNCHANGED <<outsideRegistry, registry>>

NextRegistry ==
    \/ GroupFindIn
    \/ VersionFindIn
    \/ GetDownloaded

SpecRegistry == InitRegistry /\ [][NextRegistry]_vars

\* =================================================== catalog loader
\* components/loader.rs: get_wine_versions and get_dxvk_versions read the
\* index document components.json and one document per group.
\*
\* A JSON value is modelled by its type and, for a string, its text. A
\* catalog is [readable, kind, entry]: whether components.json can be read
\* and parsed, the kind ("wine" or "dxvk") whose entry of the index is
\* modelled, and that entry. The entry is [type, items]; an item is
\* [name, title, features, doc], doc being the document <kind>/<name>.json:
\* [type, items] with version items [name, second, uri, files, features].
\* `second` is the key "title" of a wine version and "version" of a dxvk
\* version.

Absent == [type |-> "absent"]
Number == [type |-> "number"]
String(text) == [type |-> "string", text |-> text]

\* serde_json::Value::as_str
as_str(value) == IF value.type = "string" THEN Some(value.text) ELSE None

Kinds == {"wine", "dxvk"}

\* the outcomes of a load besides Ok(groups)
ErrOf(msg) == [kind |-> "Err", msg |-> msg]

\* the version items of a well-formed per-group document
WellFormedVersions ==
    [name : {String("build-1"), String("build-2")}, second : {String("t")},
     uri : {String("u")}, files : {"valid"}, features : {None}]
\* the group items of a well-formed index
WellFormedGroups ==
    [name : {String("wine-ge"), String("lutris")}, title : {String("T")},
     features : {None},
     doc : [type : {"array"},
            items : ListsUpTo(WellFormedVersions, MaxVersions)]]
WellFormedCatalogs ==
    [readable : {TRUE}, kind : Kinds,
     entry : [type : {"array"},
              items : ListsUpTo(WellFormedGroups, MaxGroups)]]

\* the ways one required value of a catalog can be wrong
SlotFaults == {Absent, Number}
GroupKeys == {"name", "title"}
VersionKeys == {"name", "second", "uri"}

\* a catalog with one required value of a well-formed catalog replaced
WithEntry(c, type) == [c EXCEPT !.entry.type = type]
WithGroupKey(c, g, key, value) ==
    [c EXCEPT !.entry.items[g] = [@ EXCEPT ![key] = value]]
WithDoc(c, g, type) == [c EXCEPT !.entry.items[g].doc.type = type]
WithVersionKey(c, g, v, key, value) ==
    [c EXCEPT !.entry.items[g].doc.items[v] = [@ EXCEPT ![key] = value]]

GroupsAt(c) == DOMAIN c.entry.items
VersionsAt(c) ==
    {<<g, v>> \in GroupsAt(c) \X (1 .. MaxVersions) :
        v \in DOMAIN c.entry.items[g].doc.items}

Malformations(c) ==
    {[c EXCEPT !.readable = FALSE]}
      \cup {WithEntry(c, type) : type \in {"absent", "number"}}
      \cup {WithGroupKey(c, g, key, value) :
              g \in GroupsAt(c), key \in GroupKeys, value \in SlotFaults}
      \cup {WithDoc(c, g, type) :
              g \in GroupsAt(c), type \in {"unreadable", "object"}}
      \cup {WithVersionKey(c, gv[1], gv[2], key, value) :
              gv \in VersionsAt(c), key \in VersionKeys, value \in SlotFaults}
      \cup {WithVersionKey(c, gv[1], gv[2], "files", "invalid") :
              gv \in VersionsAt(c)}

\* the Version built from a version item
LoadedVersion(version) ==
    [name |-> version.name.text, second |-> version.second.text,
     uri |-> version.uri.text, features |-> version.features,
     managed |-> FALSE]

\* a push that puts the version in front of the earlier ones
push_version_InFront(versions, version) ==
    <<LoadedVersion(version)>> \o versions

\* `wine_versions.push(wine::Version { .. })`
push_version(versions, version) == Append(versions, LoadedVersion(version))

\* the versions loop: `for version in versions { wine_versions.push(..) }`
\* with `version["name"].as_str().unwrap()` and
\* `serde_json::from_value::<wine::Files>(..)?`
RECURSIVE load_versions(_, _, _, _)
load_versions(kind, items, k, acc) ==
    IF k > Len(items) THEN Ok(acc)
    ELSE LET version == items[k]
         IN  IF ~as_str(version.name).some THEN Panic
             ELSE IF ~as_str(version.second).some THEN Panic
             ELSE IF ~as_str(version.uri).some THEN Panic
             ELSE IF kind = "wine" /\ version.files # "valid"
               THEN ErrOf("files")
             ELSE load_versions(kind, items, k + 1,
                                push_version(acc, version))

\* dxvk: `None => dxvk::Features::default()`; wine keeps the Option
group_features(kind, written) ==
    IF kind = "dxvk" /\ ~written.some THEN Some(DefaultFeatures)
    ELSE written

\* one pass of the groups loop: the group's name and title, then the read
\* of its document <kind>/<name>.json, then the versions loop
load_group(kind, group) ==
    IF group.name.type = "absent"
      THEN ErrOf("group's name not found")
    ELSE IF ~as_str(group.name).some
      THEN ErrOf("group's name entry must be a string")
    ELSE IF group.title.type = "absent"
      THEN ErrOf("group's title not found")
    ELSE IF ~as_str(group.title).some
      THEN ErrOf("group's title entry must be a string")
    ELSE IF group.doc.type = "unreadable"
      THEN ErrOf("read_to_string")
    ELSE IF group.doc.type # "array"
      THEN ErrOf("wine versions must be a list")
    ELSE LET versions == load_versions(kind, group.doc.items, 1, <<>>)
         IN  IF versions.kind # "Ok" THEN versions
             ELSE Ok([name |-> group.name.text,
                      title |-> group.title.text,
                      features |-> group_features(kind, group.features),
                      versions |-> versions.value,
                      managed |-> FALSE])

\* the groups loop: `for group in groups { .. wine_groups.push(..) }`
RECURSIVE load_groups(_, _, _, _)
load_groups(kind, items, k, acc) ==
    IF k > Len(items) THEN Ok(acc)
    ELSE LET group == load_group(kind, items[k])
         IN  IF group.kind # "Ok" THEN group
             ELSE load_groups(kind, items, k + 1, Append(acc, group.value))

\* the read of components.json and the kind's entry of it: the groups
\* the loop goes over
index_groups(c) ==
    IF ~c.readable THEN ErrOf("read_to_string")
    ELSE IF c.entry.type = "absent" THEN ErrOf("wine entry not found")
    ELSE IF c.entry.type # "array" THEN ErrOf("wine entry must be a list")
    ELSE Ok(c.entry.items)

\* the body of get_wine_versions / get_dxvk_versions run on a catalog
\* that does not change while it is read
read_catalog(c) ==
    LET groups == index_groups(c)
    IN  IF groups.kind # "Ok" THEN groups
        ELSE load_groups(c.kind, groups.value, 1, <<>>)

outsideLoader == <<resolverVars, registryVars, steamVars>>

InitLoad ==
    /\ ResolverIdle
    /\ RegistryIdle
    /\ SteamIdle
    /\ \E c \in WellFormedCatalogs : disk \in {c} \cup Malformations(c)
    /\ cache = {}
    /\ threads = <<>>
    /\ loads = <<>>

\* one call of the function body on the catalog on disk, which nothing
\* edits while the call runs
ReadCatalog ==
    /\ loads = <<>>
    /\ loads' = <<read_catalog(disk)>>
    /\ UNCHANGED <<outsideLoader, disk, cache, threads>>

NextLoad == ReadCatalog

SpecLoad == InitLoad /\ [][NextLoad]_vars

\* ================================================ catalog memoization
\* loader.rs:18 `#[cached(key = "PathBuf", convert = {index.to_path_buf()},
\* result)]`: the function is wrapped in a lookup in a process-wide map
\* behind a mutex and, on a miss, an insert of an Ok result. The mutex is
\* held for the lookup and for the insert, not while the function body
\* runs, so callers that miss together each run the body and each insert.

\* the index path all callers pass
IndexPath == "components"

\* the callers
Threads == {"t1", "t2"}
IdleThread == [pc |-> "idle"]

\* at most this many loads are started
MaxLoads == 3

\* the catalogs the index path holds over time: two that load, with
\* different group titles and documents, one whose index lacks the entry,
\* and one whose index cannot be read
CatalogOf(names) ==
    [readable |-> TRUE, kind |-> "wine",
     entry |-> [type |-> "array",
                items |-> <<[name |-> String("wine-ge"),
                             title |-> String("T"), features |-> None,
                             doc |-> [type |-> "array",
                                      items |->
                                        [k \in DOMAIN names |->
                                          [name |-> String(names[k]),
                                           second |-> String("t"),
                                           uri |-> String("u"),
                                           files |-> "valid",
                                           features |-> None]]]]>>]]
CatalogsOnDisk ==
    {CatalogOf(<<"build-1">>),
     WithGroupKey(CatalogOf(<<"build-1", "build-2">>), 1, "title",
                  String("New")),
     WithEntry(CatalogOf(<<"build-1">>), "absent"),
     [CatalogOf(<<"build-1">>) EXCEPT !.readable = FALSE]}

\* a lookup that never finds the entry
cache_get_Missing(entries, key) == None

\* Cached::cache_get
cache_get(entries, key) ==
    IF \E e \in entries : e.key = key
      THEN Some((CHOOSE e \in entries : e.key = key).value)
      ELSE None

\* an insert that leaves earlier entries of the key in place
cache_set_Adding(entries, key, value) ==
    entries \cup {[key |-> key, value |-> value]}

\* Cached::cache_set
cache_set(entries, key, value) ==
    {e \in entries : e.key # key} \cup {[key |-> key, value |-> value]}

\* a wrapper that memoizes failures too, as an empty list
memoize_Always(entries, key, returned) ==
    cache_set(entries, key,
              IF returned.kind = "Ok" THEN returned.value ELSE <<>>)

\* the `result` flavour of #[cached]: only an Ok result is inserted
memoize(entries, key, returned) ==
    IF returned.kind = "Ok" THEN cache_set(entries, key, returned.value)
                            ELSE entries

\* the document <kind>/<name>.json of a catalog; a catalog keeps the
\* documents of its groups also when its index cannot be read or lacks
\* the entry
document(c, name) ==
    LET at == {g \in DOMAIN c.entry.items :
                  as_str(c.entry.items[g].name) = Some(name)}
    IN  IF at = {} THEN [type |-> "unreadable", items |-> <<>>]
        ELSE c.entry.items[CHOOSE g \in at : \A h \in at : g <= h].doc

\* a caller whose body came to its end: what it read and what it returns
Finished(th, read, returned) ==
    [pc |-> "store", since |-> th.since, read |-> read, result |-> returned]

\* the first read of the body, of components.json of the catalog then on
\* disk; `read` keeps what the caller has read, the index and, group by
\* group, the documents
read_index(th, c) ==
    LET groups == index_groups(c)
    IN  IF groups.kind # "Ok" THEN Finished(th, c, groups)
        ELSE IF groups.value = <<>> THEN Finished(th, c, Ok(<<>>))
        ELSE [pc |-> "document", since |-> th.since, read |-> c,
              next |-> 1, acc |-> <<>>]

\* one pass of the groups loop: the document of the next group of the
\* index that was read is read from the catalog then on disk, once the
\* group's name and title passed
read_document(th, c) ==
    LET group == th.read.entry.items[th.next]
        named == as_str(group.name).some /\ as_str(group.title).some
        item == IF named
                  THEN [group EXCEPT !.doc = document(c, group.name.text)]
                  ELSE group
        seen == [th.read EXCEPT !.entry.items[th.next] = item]
        loaded == load_group(th.read.kind, item)
    IN  IF loaded.kind # "Ok" THEN Finished(th, seen, loaded)
        ELSE IF th.next = Len(th.read.entry.items)
          THEN Finished(th, seen, Ok(Append(th.acc, loaded.value)))
        ELSE [pc |-> "document", since |-> th.since, read |-> seen,
              next |-> th.next + 1, acc |-> Append(th.acc, loaded.value)]

\* the loads started so far
Started == Len(loads) + Cardinality({t \in Threads : threads[t].pc # "idle"})

\* what a returned load leaves in the history
Load(t, since, hit, read, returned) ==
    [thread |-> t, since |-> since, hit |-> hit, read |-> read,
     result |-> returned]

InitCache ==
    /\ ResolverIdle
    /\ RegistryIdle
    /\ SteamIdle
    /\ disk \in CatalogsOnDisk
    /\ cache = {}
    /\ threads = [t \in Threads |-> IdleThread]
    /\ loads = <<>>

\* a caller enters get_wine_versions: the lookup under the mutex; a hit
\* returns a clone of the entry
Lookup(t) ==
    /\ threads[t].pc = "idle"
    /\ Started < MaxLoads
    /\ LET found == cache_get(cache, IndexPath)
       IN  IF found.some
             THEN /\ loads' = Append(loads, Load(t, Len(loads), TRUE, disk,
                                                 Ok(found.value)))
                  /\ threads' = threads
             ELSE /\ threads' = [threads EXCEPT ![t] =
                                    [pc |-> "execute", since |-> Len(loads)]]
                  /\ loads' = loads
    /\ UNCHANGED <<outsideLoader, disk, cache>>

\* the function body starts, outside the mutex: components.json is read
Execute(t) ==
    /\ threads[t].pc = "execute"
    /\ threads' = [threads EXCEPT ![t] = read_index(@, disk)]
    /\ UNCHANGED <<outsideLoader, disk, cache, loads>>

\* the body goes on, still outside the mutex: the next group's document
\* is read
ReadDocument(t) ==
    /\ threads[t].pc = "document"
    /\ threads' = [threads EXCEPT ![t] = read_document(@, disk)]
    /\ UNCHANGED <<outsideLoader, disk, cache, loads>>

\* the insert under the mutex, of an Ok result only, and the return
Store(t) ==
    /\ threads[t].pc = "store"
    /\ cache' = memoize(cache, IndexPath, threads[t].result)
    /\ loads' = Append(loads, Load(t, threads[t].since, FALSE,
                                   threads[t].read, threads[t].result))
    /\ threads' = [threads EXCEPT ![t] = IdleThread]
    /\ UNCHANGED <<outsideLoader, disk>>

\* the catalog under the index path is edited or removed
EditCatalog ==
    /\ disk' \in CatalogsOnDisk \ {disk}
    /\ UNCHANGED <<outsideLoader, cache, threads, loads>>

NextCache ==
    \/ \E t \in Threads : Lookup(t)
    \/ \E t \in Threads : Execute(t)
    \/ \E t \in Threads : ReadDocument(t)
    \/ \E t \in Threads : Store(t)
    \/ EditCatalog

SpecCache == InitCache /\ [][NextCache]_vars

\* =================================================== Proton discovery
\* integrations/steam.rs: get_proton_installs_as_wines over the candidate
\* directories, the directories of the search roots that passed check_pld
\* (a real directory holding a `proton` file). A candidate is [dir,
\* encoding, version]: the name of the directory, a sequence of
\* characters; whether its path is UTF-8; and its `version` file,
\* [readable, text], the text being a sequence of characters.

MaxCandidates == 2
MaxChars == 3

\* the characters of the version files drawn: a letter and the separator
Chars == {"p", " "}
Whitespace == {" ", "\n"}

VersionFiles ==
    [readable : {TRUE}, text : ListsUpTo(Chars, MaxChars)]
      \cup {[readable |-> FALSE, text |-> <<>>]}
\* the directory names drawn: a plain one and one that ends in a space
CandidateDirs == {<<"G", "E">>, <<"p", " ">>}
\* the path of a candidate is UTF-8 ("utf8"), or not because of the
\* directory's own name ("name"), or not because of a directory above it
\* ("root")
Encodings == {"utf8", "name", "root"}
Candidates ==
    [dir : CandidateDirs, encoding : Encodings, version : VersionFiles]

\* `path.to_str()`: the path of the candidate under its search root, None
\* when it is not UTF-8
to_str(candidate) ==
    IF candidate.encoding = "utf8" THEN Some(<<"/">> \o candidate.dir)
                                   ELSE None

\* `path.file_name()` followed by `to_str()`
file_name(candidate) ==
    IF candidate.encoding = "name" THEN None ELSE Some(candidate.dir)

\* str::split_once(" ")
split_once(text) ==
    LET spaces == {i \in DOMAIN text : text[i] = " "}
    IN  IF spaces = {} THEN None
        ELSE LET i == CHOOSE i \in spaces : \A j \in spaces : i <= j
             IN  Some([before |-> SubSeq(text, 1, i - 1),
                       after |-> SubSeq(text, i + 1, Len(text))])

\* str::trim
trim(text) ==
    LET solid == {i \in DOMAIN text : text[i] \notin Whitespace}
    IN  IF solid = {} THEN <<>>
        ELSE SubSeq(text, CHOOSE i \in solid : \A j \in solid : i <= j,
                          CHOOSE i \in solid : \A j \in solid : i >= j)

NoNames == [title |-> None, name |-> None]

\* get_split_names: `read_to_string(..).expect(..)` panics when the file
\* cannot be read; a directory name that is not UTF-8 gives no names
get_split_names(candidate) ==
    IF ~candidate.version.readable THEN Panic
    ELSE LET split == split_once(candidate.version.text)
         IN  IF ~split.some THEN Ok(NoNames)
             ELSE IF split.value.after = <<>> THEN Ok(NoNames)
             ELSE IF ~file_name(candidate).some THEN Ok(NoNames)
             ELSE Ok([title |-> Some(trim(file_name(candidate).value)),
                      name |-> Some(trim(split.value.after))])

\* the fixed profile of get_proton_installs_as_wines; compat is the value
\* of STEAM_COMPAT_DATA_PATH
ProtonFeatures(compat) ==
    [bundle |-> "Proton", need_dxvk |-> TRUE, compact_launch |-> TRUE,
     prefix_subdir |-> "None",
     command |-> "python3 '%build%/proton' waitforexitandrun",
     env |-> {}, managed_prefix |-> compat]

\* get_library_search_roots, followed by check_root and check_pld over
\* each root: the candidate directories under the roots of the install
\* found, None when SteamDir::locate() finds no install
get_library_search_roots(install, under) ==
    IF install THEN Some(under) ELSE None

\* check_root over the search roots: the candidates under them;
\* `read_dir().unwrap()` panics on a root that exists and cannot be read
check_root(legible, under) ==
    IF legible THEN Some(under) ELSE Panic

\* filter_local_roots_by_proton_launcher: the candidates of every root,
\* none when there are no roots; the answer is always Some, unless
\* check_root panics
filter_local_roots_by_proton_launcher(install, legible, under) ==
    LET roots == get_library_search_roots(install, under)
    IN  IF ~roots.some THEN Some(<<>>)
        ELSE LET processed == check_root(legible, roots.value)
             IN  IF processed = Panic THEN Panic
                                      ELSE Some(processed.value)

\* one pass of the loop of get_proton_installs_as_wines: the names of the
\* candidate and, when it has both, the version pushed for it, whose uri
\* is `path.to_str().unwrap().trim()`; Ok(None) when the candidate is
\* skipped
proton_version(candidate, compat) ==
    LET names == get_split_names(candidate)
    IN  IF names.kind = "Panic" THEN Panic
        ELSE IF ~names.value.name.some \/ ~names.value.title.some
          THEN Ok(None)
        ELSE IF ~to_str(candidate).some THEN Panic
        ELSE Ok(Some([name |-> names.value.name.value,
                      title |-> names.value.title.value,
                      uri |-> trim(to_str(candidate).value),
                      features |-> Some(ProtonFeatures(compat)),
                      managed |-> TRUE]))

\* get_proton_installs_as_wines over the candidates found; a panic of
\* the search for them, or of a pass, ends the run
get_proton_installs_as_wines(paths, compat) ==
    LET found == IF paths.some THEN paths.value ELSE <<>>
        passes == [k \in DOMAIN found |-> proton_version(found[k], compat)]
        emitted == SelectSeq([k \in DOMAIN found |-> k],
                             LAMBDA k : passes[k].value.some)
    IN  IF paths = Panic THEN Panic
        ELSE IF ~paths.some THEN ErrOf("Steam mode active but no roots?")
        ELSE IF \E k \in DOMAIN found : passes[k].kind = "Panic" THEN Panic
        ELSE Ok(<<[name |-> "steam-proton",
                   title |-> "Proton Runners via Steam",
                   features |-> Some(ProtonFeatures(compat)),
                   versions |->
                     [e \in DOMAIN emitted |->
                        passes[emitted[e]].value.value],
                   managed |-> TRUE]>>)

outsideSteam == <<resolverVars, loaderVars, registry, local_folder>>

InitSteam ==
    /\ ResolverIdle
    /\ RegistryIdle
    /\ LoaderIdle
    /\ located \in BOOLEAN
    /\ readable \in IF located THEN BOOLEAN ELSE {TRUE}
    /\ candidates \in IF located THEN ListsUpTo(Candidates, MaxCandidates)
                               ELSE {<<>>}
    /\ environ = NoEnviron

\* one discovery run
Discover ==
    /\ query = NoQuery
    /\ \E compat \in {None, Some("compatdata")} :
        /\ query' = [op |-> "get_proton_installs_as_wines"]
        /\ reply' = get_proton_installs_as_wines(
                        filter_local_roots_by_proton_launcher(located,
                                                              readable,
                                                              candidates),
                        compat)
    /\ UNCHANGED <<outsideSteam, steamVars>>

NextSteam == Discover

SpecSteam == InitSteam /\ [][NextSteam]_vars

\* ============================================== Environment detection
\* integrations/steam.rs: the environment the launcher runs in, read from
\* the process environment. A variable is unset (None) or holds a value.

EnvValues == {None, Some("1"), Some("0"), Some("true")}
Environments == [EnvNames -> EnvValues]

\* the window sizes of the Deck
DeckWidth == 1280
DeckHeight == 800
\* the sizes a caller passes as its default
DefaultSizes == {0, 1920}

\* check_env_var_for_val
check_env_var_for_val(env, key, expected) ==
    /\ env[key].some
    /\ env[key].value = expected

launched_from_steam(env) == check_env_var_for_val(env, "SteamEnv", "1")
is_steam_deck(env) == check_env_var_for_val(env, "SteamDeck", "1")
is_steam_os(env) == check_env_var_for_val(env, "SteamOS", "1")

\* environment() deciding the Deck before SteamOS
environment_DeckFirst(env) ==
    IF launched_from_steam(env)
    THEN IF is_steam_deck(env) THEN "Deck"
         ELSE IF is_steam_os(env) THEN "OS" ELSE "Desktop"
    ELSE "Invalid"

\* environment()
environment(env) ==
    IF launched_from_steam(env)
    THEN IF is_steam_os(env)
         THEN IF is_steam_deck(env) THEN "Deck" ELSE "OS"
         ELSE "Desktop"
    ELSE "Invalid"

\* launched_from()
launched_from(env) ==
    IF environment(env) = "Invalid" THEN "Independent" ELSE "Steam"

\* is_prefix_update_disabled()
is_prefix_update_disabled(env) == launched_from(env) = "Steam"

default_window_size_width(env, default) ==
    IF is_steam_deck(env) THEN DeckWidth ELSE default

default_window_size_height(env, default) ==
    IF is_steam_deck(env) THEN DeckHeight ELSE default

outsideEnv ==
    <<resolverVars, loaderVars, registry, local_folder, candidates, located,
      readable>>

InitEnv ==
    /\ ResolverIdle
    /\ RegistryIdle
    /\ LoaderIdle
    /\ candidates = <<>>
    /\ located = FALSE
    /\ readable = TRUE
    /\ environ \in Environments

Environment ==
    /\ query' = [op |-> "environment"]
    /\ reply' = Ok(environment(environ))
    /\ UNCHANGED <<outsideEnv, environ>>

LaunchedFrom ==
    /\ query' = [op |-> "launched_from"]
    /\ reply' = Ok(launched_from(environ))
    /\ UNCHANGED <<outsideEnv, environ>>

PrefixUpdateDisabled ==
    /\ query' = [op |-> "is_prefix_update_disabled"]
    /\ reply' = Ok(is_prefix_update_disabled(environ))
    /\ UNCHANGED <<outsideEnv, environ>>

DefaultWindowSize ==
    /\ \E default \in DefaultSizes :
        \/ /\ query' = [op |-> "default_window_size_width",
                        default |-> default]
           /\ reply' = Ok(default_window_size_width(environ, default))
        \/ /\ query' = [op |-> "default_window_size_height",
                        default |-> default]
           /\ reply' = Ok(default_window_size_height(environ, default))
    /\ UNCHANGED <<outsideEnv, environ>>

NextEnv ==
    \/ Environment
    \/ LaunchedFrom
    \/ PrefixUpdateDisabled
    \/ DefaultWindowSize

SpecEnv == InitEnv /\ [][NextEnv]_vars

\* ===================================================== Runner listing
\* components/loader.rs: ComponentsLoader::get_wine_versions, which lists
\* the Proton builds of Steam when launched from Steam and the groups of
\* the catalog otherwise.

\* the version files drawn: one with a name, one without a separator and
\* one that cannot be read
RunnerVersionFiles ==
    {[readable |-> TRUE, text |-> <<"p", " ", "p">>],
     [readable |-> TRUE, text |-> <<"p">>],
     [readable |-> FALSE, text |-> <<>>]}
\* the candidates drawn: both directories with each version file, and
\* one under a search root whose path is not UTF-8
RunnerCandidates ==
    [dir : CandidateDirs, encoding : {"utf8"}, version : RunnerVersionFiles]
      \cup {[dir |-> <<"G", "E">>, encoding |-> "root",
              version |-> [readable |-> TRUE, text |-> <<"p", " ", "p">>]]}

\* the environments drawn: SteamEnv unset or set, to "1" or otherwise
RunnerEnvironments ==
    {env \in Environments : env["SteamDeck"] = None /\ env["SteamOS"] = None}

\* mutation of get_local_proton_versions: the cached get_wine_versions
\* also when no Proton build was found
get_local_proton_versions_OrCatalog(install, legible, under, compat) ==
    LET wines == get_proton_installs_as_wines(
                     filter_local_roots_by_proton_launcher(install, legible,
                                                           under),
                     compat)
    IN  IF wines.kind = "Err" THEN [cached |-> TRUE]
        ELSE IF wines.kind = "Ok" /\ wines.value[1].versions = <<>>
          THEN [cached |-> TRUE]
        ELSE [cached |-> FALSE, answer |-> wines]

\* get_local_proton_versions: the Proton builds, and on an error of their
\* discovery a call of the cached get_wine_versions
get_local_proton_versions(install, legible, under, compat) ==
    LET wines == get_proton_installs_as_wines(
                     filter_local_roots_by_proton_launcher(install, legible,
                                                           under),
                     compat)
    IN  IF wines.kind = "Err" THEN [cached |-> TRUE]
                              ELSE [cached |-> FALSE, answer |-> wines]

\* ComponentsLoader::get_wine_versions, up to the call of the cached
\* get_wine_versions
loader_get_wine_versions(env, install, legible, under, compat) ==
    IF launched_from_steam(env)
      THEN get_local_proton_versions(install, legible, under, compat)
      ELSE [cached |-> TRUE]

\* what the body of an earlier call may have read: the index of one
\* catalog and, for each of its groups, the document some catalog held
\* when the body came to it
EarlierReads ==
    UNION {{[a EXCEPT !.entry.items =
                [g \in GroupsAt(a) |->
                    [a.entry.items[g] EXCEPT
                        !.doc = document(from[g],
                                         a.entry.items[g].name.text)]]] :
              from \in [GroupsAt(a) -> CatalogsOnDisk]} :
           a \in CatalogsOnDisk}

\* what the cache holds when the call is made: nothing, or the list an
\* earlier call of the process loaded and stored
EarlierCaches ==
    {memoize({}, IndexPath, read_catalog(c)) : c \in EarlierReads}

InitRunners ==
    /\ ResolverIdle
    /\ RegistryIdle
    /\ disk \in CatalogsOnDisk
    /\ cache \in EarlierCaches
    /\ threads = [t \in Threads |-> IdleThread]
    /\ loads = <<>>
    /\ located \in BOOLEAN
    /\ readable \in IF located THEN BOOLEAN ELSE {TRUE}
    /\ candidates \in IF located
                        THEN ListsUpTo(RunnerCandidates, MaxCandidates)
                        ELSE {<<>>}
    /\ environ \in RunnerEnvironments

\* a call of ComponentsLoader::get_wine_versions: under Steam the Proton
\* builds are answered; otherwise the caller enters the cached
\* get_wine_versions, whose lookup under the mutex answers a hit
ListRunners(t) ==
    /\ query = NoQuery
    /\ threads[t].pc = "idle"
    /\ query' = [op |-> "ComponentsLoader::get_wine_versions"]
    /\ \E compat \in {None, Some("compatdata")} :
        LET listed == loader_get_wine_versions(environ, located, readable,
                                               candidates, compat)
            found == cache_get(cache, IndexPath)
        IN  IF ~listed.cached
              THEN /\ reply' = listed.answer
                   /\ UNCHANGED <<threads, loads>>
            ELSE IF found.some
              THEN /\ reply' = Ok(found.value)
                   /\ loads' = Append(loads, Load(t, Len(loads), TRUE, disk,
                                                   Ok(found.value)))
                   /\ threads' = threads
            ELSE /\ threads' = [threads EXCEPT ![t] =
                                   [pc |-> "execute", since |-> Len(loads)]]
                 /\ UNCHANGED <<reply, loads>>
    /\ UNCHANGED <<resolverVars, registry, local_folder, disk, cache,
                   steamVars>>

\* the body came to its end: the insert under the mutex, of an Ok result
\* only, and the return to the caller of ComponentsLoader
StoreListed(t) ==
    /\ threads[t].pc = "store"
    /\ cache' = memoize(cache, IndexPath, threads[t].result)
    /\ loads' = Append(loads, Load(t, threads[t].since, FALSE,
                                   threads[t].read, threads[t].result))
    /\ reply' = threads[t].result
    /\ threads' = [threads EXCEPT ![t] = IdleThread]
    /\ UNCHANGED <<resolverVars, registry, local_folder, query, disk,
                   steamVars>>

NextRunners ==
    \/ \E t \in Threads : ListRunners(t)
    \/ \E t \in Threads : Execute(t)
    \/ \E t \in Threads : ReadDocument(t)
    \/ \E t \in Threads : StoreListed(t)
    \/ EditCatalog

SpecRunners == InitRunners /\ [][NextRunners]_vars

\* ================================================== call-log queries

Invoked(op) == \E k \in DOMAIN calls : calls[k].op = op
Answered(op, answers) ==
    \E k \in DOMAIN calls : calls[k].op = op /\ calls[k].ans \in answers
InvokedAny(ops) == \E k \in DOMAIN calls : calls[k].op \in ops

VoiceOps == {"voice_with_locale", "voice_is_installed_in", "voice_new",
             "voice_try_get_diff"}
PatchOps == {"patch_is_sync", "patch_sync", "player_patch",
             "player_patch_is_applied", "unity_player_patch",
             "unity_player_patch_is_applied", "xlua_patch",
             "xlua_patch_is_applied", "mfplat_is_applied",
             "jadeite_is_installed", "jadeite_get_metadata",
             "jadeite_get_version", "get_status"}
TelemetryOps == {"telemetry_is_disabled"}
\* every query that get makes from the prefix check on
ChecksOfGet == {"drive_c_exists", "game_is_installed",
                "old_audio_folder_exists", "game_try_get_diff"}
                   \cup VoiceOps \cup PatchOps \cup TelemetryOps

StoppingTags == {"Diff", "Outdated", "NotInstalled"}
GameStates == {"GameUpdateAvailable", "GameOutdated", "GameNotInstalled"}
Returned == pc = "done"

\* ============================================================ claims

\* C1: in LauncherState::get, once the game version provider has reported
\* NotInstalled, Outdated or Diff the call has returned a Game* state, and
\* no voice-package query, no patch sync or patch check and no telemetry
\* check was made in that call (their invocation counts are zero).
C1_GameDiffStopsTheCall ==
    Answered("game_try_get_diff", StoppingTags) =>
        /\ Returned
        /\ result.tag \in GameStates
        /\ ~InvokedAny(VoiceOps \cup PatchOps \cup TelemetryOps)

\* C1 witness: the game is Outdated while voices and mirrors are configured
C1_Witness ==
    /\ Returned
    /\ variant = "genshin"
    /\ Answered("game_try_get_diff", {"Outdated"})
    /\ Len(params.voices) = 2
    /\ params.servers = 2
    /\ result.tag = "GameOutdated"

\* ------------------------------------------------------------------ C2
RunnerSelected == params.selected # "None"
PrefixHeld == Answered("drive_c_exists", {"true"}) \/ managed
GameLatest == Answered("game_try_get_diff", {"Latest"})
VoicesHeld ==
    /\ \A k \in 1..Len(params.voices) :
          \E j \in DOMAIN calls : /\ calls[j].op = "voice_try_get_diff"
                                  /\ calls[j].arg = k
                                  /\ calls[j].ans \in {"Latest", "Predownload"}
    /\ ~Answered("voice_try_get_diff", StoppingTags \cup {"Err"})
\* every patch check the variant makes was answered favourably
PatchHeld ==
    CASE variant = "genshin" ->
           params.use_patch => Answered("player_patch_is_applied", {"true"})
      [] variant = "honkai" ->
           /\ params.use_patch => Answered("mfplat_is_applied", {"true"})
           /\ Answered("jadeite_is_installed", {"true"})
           /\ Answered("jadeite_get_version", {"Current"})
           /\ Answered("get_status", {"Verified"})
      [] OTHER ->
           /\ Answered("unity_player_patch_is_applied", {"true"})
           /\ params.use_patch => Answered("xlua_patch_is_applied", {"true"})
TelemetryHeld ==
    \/ Answered("telemetry_is_disabled", {"None", "Err"})
    \/ params.telemetry_ignored

\* C2 as stated: Launch is returned only when a runner is selected, the
\* prefix's drive_c exists or the runner is managed, the game diff was
\* Latest, every selected voice's diff was Latest or Predownload, no patch
\* condition was unmet and telemetry was disabled or ignored.
C2_Original ==
    (variant \in {"genshin", "honkai"} /\ result.tag = "Launch") =>
        /\ RunnerSelected
        /\ PrefixHeld
        /\ GameLatest
        /\ VoicesHeld
        /\ PatchHeld
        /\ TelemetryHeld

\* C2 amended: in games/genshin and games/honkai, Launch is returned only
\* when the prefix's drive_c exists or the runner is managed, the game diff
\* was Latest, every selected voice's diff was Latest or Predownload, no
\* patch condition was unmet and telemetry was disabled (or its lookup
\* failed) or ignored; a runner is selected whenever the call entered
\* through get_from_config (get itself does not look at the selection).
C2_LaunchOnlyWhenChecksHeld ==
    (variant \in {"genshin", "honkai"} /\ result.tag = "Launch") =>
        /\ entry = "get_from_config" => RunnerSelected
        /\ PrefixHeld
        /\ GameLatest
        /\ VoicesHeld
        /\ PatchHeld
        /\ TelemetryHeld

\* C2 witness: honkai launches from the config with every check passed
C2_Witness ==
    /\ variant = "honkai"
    /\ entry = "get_from_config"
    /\ result.tag = "Launch"
    /\ params.use_patch
    /\ Answered("telemetry_is_disabled", {"Err"})

\* ------------------------------------------------------------------ C3
\* C3 as stated: with no selected runner, every entry point returns
\* WineNotInstalled before the prefix check or any later check is made.
C3_Original ==
    (~RunnerSelected /\ pc \notin {"idle", "from_config"}) =>
        /\ Returned
        /\ result.tag = "WineNotInstalled"
        /\ ~InvokedAny(ChecksOfGet)

\* C3 amended: with no selected runner, get_from_config returns
\* WineNotInstalled before the prefix check, the game version provider or
\* any later check is invoked, in every variant and in both Steam and
\* Independent mode; LauncherState::get called directly makes no such check.
C3_FromConfigWineNotInstalled ==
    (entry = "get_from_config" /\ ~RunnerSelected
        /\ pc \notin {"idle", "from_config"}) =>
        /\ Returned
        /\ result.tag = "WineNotInstalled"
        /\ ~InvokedAny(ChecksOfGet)

\* C3 witness: honkai launched from Steam without a selected runner
C3_Witness ==
    /\ variant = "honkai"
    /\ entry = "get_from_config"
    /\ ~RunnerSelected
    /\ Answered("launched_from", {"Steam"})
    /\ result.tag = "WineNotInstalled"

\* ------------------------------------------------------------------ C4
\* C4: in LauncherState::get of games/genshin and games/honkai, when the
\* selected runner is not managed and drive_c does not exist the call
\* returns PrefixNotExists without querying the game version provider, and
\* when the selected runner (as get_selected_wine reports it) is managed
\* the call never returns PrefixNotExists, whatever the state of drive_c.
C4_PrefixCheck ==
    variant \in {"genshin", "honkai"} =>
        /\ (Answered("drive_c_exists", {"false"}) /\ ~managed) =>
              /\ Returned
              /\ result.tag = "PrefixNotExists"
              /\ ~Invoked("game_try_get_diff")
        /\ managed => result.tag # "PrefixNotExists"

\* C4 witness: a managed runner gets past a missing drive_c
C4_Witness ==
    /\ variant = "genshin"
    /\ managed
    /\ Answered("drive_c_exists", {"false"})
    /\ Invoked("game_try_get_diff")

\* ------------------------------------------------------------------ C5
\* C5: once the runner and prefix checks pass, a game diff of NotInstalled
\* yields GameNotInstalled, Outdated yields GameOutdated and Diff yields
\* GameUpdateAvailable, each carrying the diff the provider returned;
\* Latest and Predownload never yield one of these three states.
C5_GameDiffMapping ==
    /\ Answered("game_try_get_diff", {"NotInstalled"}) =>
          result = [tag |-> "GameNotInstalled",
                    diff |-> VersionDiff("NotInstalled", 0), voices |-> <<>>]
    /\ Answered("game_try_get_diff", {"Outdated"}) =>
          result = [tag |-> "GameOutdated",
                    diff |-> VersionDiff("Outdated", 0), voices |-> <<>>]
    /\ Answered("game_try_get_diff", {"Diff"}) =>
          result = [tag |-> "GameUpdateAvailable",
                    diff |-> VersionDiff("Diff", 0), voices |-> <<>>]
    /\ Answered("game_try_get_diff", {"Latest", "Predownload"}) =>
          result.tag \notin GameStates
    /\ result.tag \in GameStates => Invoked("game_try_get_diff")

\* C5 witness: a NotInstalled game is reported with the provider's diff
C5_Witness ==
    /\ Returned
    /\ result.tag = "GameNotInstalled"
    /\ result.diff = VersionDiff("NotInstalled", 0)

\* ------------------------------------------------------------------ C6
\* the k-th voice query of the call
VoiceQueries == SelectSeq(calls, LAMBDA c : c.op = "voice_with_locale")
VoiceDiffs == SelectSeq(calls, LAMBDA c : c.op = "voice_try_get_diff")
VoiceStateOf(tag) ==
    CASE tag = "Diff" -> "VoiceUpdateAvailable"
      [] tag = "Outdated" -> "VoiceOutdated"
      [] OTHER -> "VoiceNotInstalled"

\* C6: voice locales are checked in selection order; the first locale whose
\* diff is Diff, Outdated or NotInstalled decides the result (carrying that
\* locale's diff), no later locale is queried and no patch or telemetry
\* check is run.
C6_VoiceOrderAndStop ==
    /\ \A j \in DOMAIN VoiceQueries :
          /\ VoiceQueries[j].arg = j
          /\ j <= Len(params.voices)
          /\ VoiceQueries[j].ans \in {params.voices[j], "Err"}
    /\ \A j \in DOMAIN VoiceDiffs :
          /\ VoiceDiffs[j].arg = j
          /\ VoiceDiffs[j].ans \in StoppingTags =>
                /\ Returned
                /\ result = [tag |-> VoiceStateOf(VoiceDiffs[j].ans),
                             diff |-> VersionDiff(VoiceDiffs[j].ans, j),
                             voices |-> <<>>]
                /\ Len(VoiceQueries) = j
                /\ Len(VoiceDiffs) = j
                /\ ~InvokedAny(PatchOps \cup TelemetryOps)

\* C6 witness: the first of two different locales is Outdated
C6_Witness ==
    /\ Returned
    /\ Len(params.voices) = 2
    /\ params.voices[1] # params.voices[2]
    /\ result.tag = "VoiceOutdated"
    /\ result.diff = VersionDiff("Outdated", 1)

\* ------------------------------------------------------------------ C7
RECURSIVE PredownloadsOf(_)
\* the Predownload diffs among the answered voice diffs, in query order
PredownloadsOf(ds) ==
    IF ds = <<>> THEN <<>>
    ELSE LET rest == PredownloadsOf(SubSeq(ds, 1, Len(ds) - 1))
             last == ds[Len(ds)]
         IN  IF last.ans = "Predownload"
               THEN Append(rest, VersionDiff("Predownload", last.arg))
               ELSE rest

\* C7: in games/genshin, when all earlier checks pass and the game diff is
\* Predownload the result is PredownloadAvailable with that game diff and
\* exactly the selected locales' Predownload diffs in selection order (no
\* Latest diff among them); when the game diff is Latest it is Launch.
C7_FinalDecision ==
    (variant = "genshin" /\ Returned
        /\ Answered("telemetry_is_disabled", {"None", "Err"})) =>
        /\ Answered("game_try_get_diff", {"Predownload"}) =>
              result = [tag |-> "PredownloadAvailable",
                        diff |-> VersionDiff("Predownload", 0),
                        voices |-> PredownloadsOf(VoiceDiffs)]
        /\ Answered("game_try_get_diff", {"Latest"}) =>
              result = [tag |-> "Launch", diff |-> NoDiff, voices |-> <<>>]

\* C7 witness: one voice is Latest, the next is Predownload
C7_Witness ==
    /\ variant = "genshin"
    /\ result.tag = "PredownloadAvailable"
    /\ Len(params.voices) = 2
    /\ VoiceDiffs[1].ans = "Latest"
    /\ result.voices = <<VersionDiff("Predownload", 2)>>

\* ------------------------------------------------------------------ C8
\* C8 as stated: when the context ignores telemetry, no variant of the
\* resolver returns TelemetryNotDisabled.
C8_IgnoredTelemetryNeverBlocks ==
    params.telemetry_ignored => result.tag # "TelemetryNotDisabled"

\* ------------------------------------------------------------------ C9
\* C9: when the telemetry provider reports that no domain resolves, or the
\* lookup fails, telemetry counts as disabled: the call returns neither
\* TelemetryNotDisabled nor an error, but the final decision.
C9_TelemetryFailsOpen ==
    Answered("telemetry_is_disabled", {"None", "Err"}) =>
        /\ Returned
        /\ result.tag \notin {"TelemetryNotDisabled", "Err"}
        /\ variant = "genshin" =>
              result.tag \in {"Launch", "PredownloadAvailable"}
        /\ variant = "honkai" => Invoked("get_status")

\* C9 witness: the lookup fails, telemetry is not ignored, the game launches
C9_Witness ==
    /\ Answered("telemetry_is_disabled", {"Err"})
    /\ ~params.telemetry_ignored
    /\ result.tag = "Launch"

\* ----------------------------------------------------------------- C10
\* a patch check of the call was answered unfavourably
PatchUnmet ==
    \/ Answered("player_patch_is_applied", {"false"})
    \/ Answered("mfplat_is_applied", {"false"})
    \/ Answered("jadeite_is_installed", {"false"})
    \/ Answered("jadeite_get_version", {"Older"})
    \/ metadata \in PatchStatuses \ {"Verified"}
EarlyPatchStates == {"PlayerPatchAvailable", "MfplatPatchAvailable",
                     "PatchNotInstalled", "PatchUpdateAvailable"}
StatusPatchStates == {"PatchNotVerified", "PatchBroken", "PatchUnsafe",
                      "PatchConcerning"}

StatusStateOf(status) ==
    CASE status = "Unverified" -> "PatchNotVerified"
      [] status = "Broken" -> "PatchBroken"
      [] status = "Unsafe" -> "PatchUnsafe"
      [] status = "Concerning" -> "PatchConcerning"
      [] OTHER -> "Launch"

\* C10 as stated: whenever a patch condition is unmet (not installed,
\* update available, not applied, or status Unverified / Broken / Unsafe /
\* Concerning) the call returns that patch state and the telemetry provider
\* is not invoked.
C10_Original ==
    (variant \in {"genshin", "honkai"} /\ Returned /\ PatchUnmet
        /\ result.tag # "Err") =>
        /\ result.tag \in EarlyPatchStates \cup StatusPatchStates
        /\ ~InvokedAny(TelemetryOps)

\* C10 amended: the not-applied, not-installed and update-available patch
\* states are decided before the telemetry check and the telemetry provider
\* is not invoked for them; the verification status of honkai's patch
\* (Unverified, Broken, Unsafe, Concerning) is evaluated only after the
\* telemetry check: the provider is invoked first, and telemetry that is
\* neither disabled nor ignored yields TelemetryNotDisabled instead of the
\* status's patch state.
C10_PatchBeforeTelemetryExceptStatus ==
    variant \in {"genshin", "honkai"} =>
        /\ Answered("player_patch_is_applied", {"false"}) =>
              Returned /\ result.tag = "PlayerPatchAvailable"
        /\ Answered("mfplat_is_applied", {"false"}) =>
              Returned /\ result.tag = "MfplatPatchAvailable"
        /\ Answered("jadeite_is_installed", {"false"}) =>
              Returned /\ result.tag = "PatchNotInstalled"
        /\ Answered("jadeite_get_version", {"Older"}) =>
              Returned /\ result.tag = "PatchUpdateAvailable"
        /\ result.tag \in EarlyPatchStates => ~InvokedAny(TelemetryOps)
        /\ result.tag \in StatusPatchStates =>
              /\ InvokedAny(TelemetryOps)
              /\ TelemetryHeld
              /\ result.tag = StatusStateOf(metadata)
        /\ (Returned /\ metadata \in PatchStatuses \ {"Verified"}
               /\ InvokedAny(TelemetryOps) /\ ~TelemetryHeld) =>
              result.tag = "TelemetryNotDisabled"

\* C10 witness: an Unverified patch is reported after telemetry was checked
C10_Witness ==
    /\ variant = "honkai"
    /\ result.tag = "PatchNotVerified"
    /\ Answered("telemetry_is_disabled", {"None"})
    /\ ~params.telemetry_ignored

\* ------------------------------------------------------------------ C11

\* the order in which get visits its checks
Stages == <<"from_config", "prefix", "migration", "game", "voice", "is_sync",
            "sync",
            "patch", "telemetry", "done">>
StageOf(p) == CHOOSE k \in DOMAIN Stages : Stages[k] = p

\* an upper bound on the steps a running call still has to take: the checks
\* after the current one, each as long as the longest loop, plus what is
\* left of the loop the call is in
LoopWidth == Len(params.voices) + params.servers + 1
StepsLeft ==
    (Len(Stages) - StageOf(pc)) * LoopWidth
      + (IF pc = "voice" THEN Len(params.voices) - voice_i ELSE 0)
      + (IF pc = "sync" THEN params.servers - server_i ELSE 0)

Running == pc \notin {"idle", "done"}

\* the terminal variants of the closed set as the specification lists
\* them, with its six patch-family states
PatchFamily == {"PatchNotInstalled", "PatchUpdateAvailable",
                "PatchNotVerified", "PatchBroken", "PatchUnsafe",
                "PatchConcerning"}
ClosedSet == {"Launch", "PredownloadAvailable", "WineNotInstalled",
              "PrefixNotExists", "TelemetryNotDisabled"}
                 \cup GameStates
                 \cup {"VoiceUpdateAvailable", "VoiceOutdated",
                       "VoiceNotInstalled"}
                 \cup PatchFamily

\* the variants each resolver returns besides those of the closed set
OutsideClosedSet(v) ==
    CASE v = "genshin" -> {"PlayerPatchAvailable"}
      [] v = "honkai" -> {"MfplatPatchAvailable"}
      [] v = "legacy" -> {"FolderMigrationRequired",
                          "UnityPlayerPatchAvailable", "XluaPatchAvailable"}

\* what holds of a call whose non-error outcomes are those of `allowed`
C11_Outcome(allowed) ==
    \* a running call can always take its next step
    /\ Running => ENABLED (GenshinNext \/ HonkaiNext \/ LegacyNext)
    \* an outcome exists exactly when the call has returned
    /\ Returned <=> result # NoResult
    \* and it is an error, a variant allowed or, in the legacy resolver, the
    \* panic of its runner conversion
    /\ Returned =>
          \/ result = Error
          \/ result.tag \in allowed
          \/ (variant = "legacy" /\ result = Panicked)
    /\ ~Returned /\ ~Running => ResolverIdle

C11_State == C11_Outcome(ClosedSet \cup OutsideClosedSet(variant))

C11_Step ==
    \* every step of a running call brings it closer to its return
    /\ Running => (pc' # "idle" /\ StepsLeft' < StepsLeft)
    \* the outcome, once produced, is only discarded, and with it
    \* everything the call computed
    /\ Returned => ResolverIdle'
    \* a call starts from its parameters alone
    /\ pc = "idle" =>
          /\ calls' = <<>> /\ result' = NoResult /\ diff' = NoDiff
          /\ predownload_voice' = <<>> /\ voice_i' = 0 /\ server_i' = 0
          /\ managed' = FALSE /\ metadata' = "None"

\* C11 as stated: every resolver call terminates and produces exactly one
\* outcome, every non-error outcome is a variant of the closed set with its
\* six patch-family states, and nothing is carried into the next call.
C11_Original == []C11_Outcome(ClosedSet) /\ [][C11_Step]_vars

\* C11 amended: every resolver call terminates (each step of a running
\* call is enabled and strictly decreases a bounded measure) and produces
\* exactly one outcome; a non-error outcome is a variant of the closed set
\* or PlayerPatchAvailable (games/genshin), MfplatPatchAvailable
\* (games/honkai), FolderMigrationRequired, UnityPlayerPatchAvailable or
\* XluaPatchAvailable (legacy genshin), the legacy get_from_config may end
\* in a panic instead, and nothing is carried into the next call.
C11_TerminatesWithOneOutcome == []C11_State /\ [][C11_Step]_vars

\* C11 witness: a genshin call that went through both loops to the end
\* returned PlayerPatchAvailable, a variant outside the six patch states
C11_Witness ==
    /\ Returned
    /\ variant = "genshin"
    /\ result.tag = "PlayerPatchAvailable"
    /\ voice_i = Len(params.voices) /\ voice_i > 1
    /\ server_i = params.servers /\ server_i > 1
    /\ Answered("patch_sync", {"Err"})

\* ------------------------------------------------------------------ C12

\* the version and the group of the registry that a query names
QueryVersion == registry[query.owner].versions[query.version]
QueryOwner == registry[query.owner]

\* whole-object fallback against a group
Fallback(version, group) ==
    IF version.features.some THEN version.features ELSE group.features

\* C12: the resolved features of a version are its own features when it
\* has some, whatever the group's features are, and the features of its
\* group otherwise; features_in against the version's group and features
\* give the same answer.
C12_WholeObjectFallback ==
    /\ (query.op = "features_in" /\ query.group = query.owner) =>
          reply = Fallback(QueryVersion, QueryOwner)
    /\ (query.op = "features" /\ reply.kind = "Ok") =>
          reply.value = Fallback(QueryVersion, QueryOwner)

\* ------------------------------------------------------------------ C13

\* the group that features resolves a version against
ResolvedGroup == find_group(QueryVersion, registry)
BothAbsent(version, group) == ~version.features.some /\ ~group.features.some

\* C13 as stated: with no features on the version and none on the group,
\* resolution returns the defaults of Features::default().
C13_Original ==
    /\ (query.op = "features_in"
          /\ BothAbsent(QueryVersion, registry[query.group])) =>
          reply = Some(DefaultFeatures)
    /\ (query.op = "features" /\ reply.kind = "Ok"
          /\ BothAbsent(QueryVersion, ResolvedGroup.value)) =>
          reply.value = Some(DefaultFeatures)

\* C13: with no features on the version and none on the group it is resolved
\* against, resolution returns no features at all (None, not a Features
\* value); the defaults need_dxvk = true, empty env, no bundle, no command
\* are the value of Features::default(), which resolution does not
\* substitute.
C13_BothAbsentIsNone ==
    /\ (query.op = "features_in"
          /\ BothAbsent(QueryVersion, registry[query.group])) =>
          reply = None
    /\ (query.op = "features" /\ reply.kind = "Ok"
          /\ BothAbsent(QueryVersion, ResolvedGroup.value)) =>
          reply.value = None
    /\ DefaultFeatures.need_dxvk /\ DefaultFeatures.env = {}
    /\ DefaultFeatures.bundle = "None" /\ DefaultFeatures.command = "None"

\* C13 witness: features_in was applied with neither side carrying features
C13_Witness ==
    /\ query.op = "features_in"
    /\ BothAbsent(QueryVersion, registry[query.group])
    /\ reply = None

\* ------------------------------------------------------------------ C14

\* a required key of the catalog on disk is missing or of the wrong type
IsString(value) == value.type = "string"
RequiredKeyWrong(c) ==
    c.readable /\
    \/ c.entry.type # "array"
    \/ \E g \in DOMAIN c.entry.items :
         LET group == c.entry.items[g]
         IN  \/ ~IsString(group.name)
             \/ ~IsString(group.title)
             \/ group.doc.type = "object"
             \/ /\ group.doc.type = "array"
                /\ \E v \in DOMAIN group.doc.items :
                     \/ ~IsString(group.doc.items[v].name)
                     \/ ~IsString(group.doc.items[v].second)
                     \/ ~IsString(group.doc.items[v].uri)

\* C14: loading a catalog in which a required key is missing or of the
\* wrong JSON type returns an error value; it neither crashes nor returns
\* groups.
C14_StrictAndTotal ==
    (loads # <<>> /\ RequiredKeyWrong(disk)) => loads[1].kind = "Err"

\* ------------------------------------------------------------------ C18

\* every required value is present and of the right type, and every
\* document can be read
WellFormed(c) ==
    /\ c.readable
    /\ c.entry.type = "array"
    /\ \A g \in DOMAIN c.entry.items :
         LET group == c.entry.items[g]
         IN  /\ IsString(group.name) /\ IsString(group.title)
             /\ group.doc.type = "array"
             /\ \A v \in DOMAIN group.doc.items :
                  /\ IsString(group.doc.items[v].name)
                  /\ IsString(group.doc.items[v].second)
                  /\ IsString(group.doc.items[v].uri)
                  /\ c.kind = "wine" => group.doc.items[v].files = "valid"

RECURSIVE SumOfLens(_, _)
SumOfLens(lists, k) ==
    IF k = 0 THEN 0 ELSE Len(lists[k]) + SumOfLens(lists, k - 1)

\* C18: loading a well-formed catalog returns one group per index entry
\* in index order, each with exactly the entries of its document in
\* document order, so that the versions returned are as many as the
\* entries of all documents together.
C18_GroupsAndVersionsAsWritten ==
    (loads # <<>> /\ WellFormed(disk)) =>
        /\ loads[1].kind = "Ok"
        /\ LET groups == loads[1].value
               items == disk.entry.items
           IN  /\ Len(groups) = Len(items)
               /\ \A g \in DOMAIN items :
                    /\ groups[g].name = items[g].name.text
                    /\ groups[g].title = items[g].title.text
                    /\ Len(groups[g].versions) = Len(items[g].doc.items)
                    /\ \A v \in DOMAIN items[g].doc.items :
                         /\ groups[g].versions[v].name
                              = items[g].doc.items[v].name.text
                         /\ groups[g].versions[v].uri
                              = items[g].doc.items[v].uri.text
               /\ SumOfLens([g \in DOMAIN groups |-> groups[g].versions],
                            Len(groups))
                    = SumOfLens([g \in DOMAIN items |-> items[g].doc.items],
                                Len(items))

\* C18 witness: a catalog of two different groups, the first with two
\* different versions, was loaded
C18_Witness ==
    /\ loads # <<>> /\ loads[1].kind = "Ok"
    /\ Len(loads[1].value) = 2
    /\ loads[1].value[1].name # loads[1].value[2].name
    /\ Len(loads[1].value[1].versions) = 2
    /\ loads[1].value[1].versions[1].name # loads[1].value[1].versions[2].name
    /\ Len(loads[1].value[2].versions) = 1

\* ------------------------------------------------------------------ C15

\* no load was started while another was running
NoOverlap == \A j \in DOMAIN loads : loads[j].since = j - 1
Succeeded(j) == loads[j].result.kind = "Ok"
FirstSuccess(i) == Succeeded(i) /\ \A h \in 1 .. i - 1 : ~Succeeded(h)
EntriesOf(key) == {e \in cache : e.key = key}

\* every load after load i returned what load i returned, and the cache
\* holds the entry of load i
KeptSince(i) ==
    /\ \A j \in DOMAIN loads : j > i => loads[j].result = loads[i].result
    /\ EntriesOf(IndexPath)
         = {[key |-> IndexPath, value |-> loads[i].result.value]}

\* C15 as stated: every load after the first successful one returns a
\* result equal to it, whatever happened to the catalog on disk in between,
\* and the cache entry is never replaced by a later call.
C15_Original == \A i \in DOMAIN loads : FirstSuccess(i) => KeptSince(i)

\* C15 amended: when the loads of a path are made one after the other,
\* none started while another was running, every load after the first
\* successful one returns a result equal to it, whatever happened to the
\* catalog on disk in between, and the cache keeps the entry of the first
\* successful load; a caller that missed while another load was running
\* replaces the entry when it finishes.
C15_Memoized ==
    NoOverlap => \A i \in DOMAIN loads : FirstSuccess(i) => KeptSince(i)

\* C15 witness: after a successful load the catalog was replaced by one
\* that loads differently, and the next load still returned the first
\* result
C15_Witness ==
    /\ NoOverlap
    /\ Len(loads) > 1
    /\ FirstSuccess(1)
    /\ loads[2].read # loads[1].read
    /\ read_catalog(loads[2].read) # loads[1].result
    /\ loads[2].result = loads[1].result

\* ------------------------------------------------------------------ C16

Misses == {j \in DOMAIN loads : ~loads[j].hit}

\* C16: however the first loads of a path interleave with each other and
\* with edits of the catalog, the cache never holds more than one entry
\* for the path and holds one as soon as a load succeeded; a caller that
\* ran the body returns the complete list of what it read, every group of
\* the index with every version of its document; every entry and every
\* list answered from the cache is such a list, returned by a caller
\* before; and callers that read the same catalog return equal results.
C16_RacingFirstLoads ==
    /\ Cardinality(EntriesOf(IndexPath)) <= 1
    /\ (\E j \in DOMAIN loads : Succeeded(j)) =>
          Cardinality(EntriesOf(IndexPath)) = 1
    /\ \A j \in Misses : loads[j].result = read_catalog(loads[j].read)
    /\ \A e \in cache : \E j \in Misses : loads[j].result = Ok(e.value)
    /\ \A j \in DOMAIN loads :
          loads[j].hit =>
              \E i \in Misses : i < j /\ loads[i].result = loads[j].result
    /\ \A i, j \in Misses :
          loads[i].read = loads[j].read => loads[i].result = loads[j].result

\* C16 witness: two callers missed together, read different catalogs and
\* both inserted; one entry is left
C16_Witness ==
    /\ Len(loads) > 1
    /\ loads[1].since = 0 /\ loads[2].since = 0
    /\ loads[1].thread # loads[2].thread
    /\ Succeeded(1) /\ Succeeded(2)
    /\ loads[1].result # loads[2].result
    /\ Cardinality(EntriesOf(IndexPath)) = 1

\* ------------------------------------------------------------------ C17

ManagedOnly(groups) == SelectSeq(groups, LAMBDA group : group.managed)

\* C17: get_downloaded returns no version of an unmanaged group whose name
\* has no entry in the local folder, and returns every managed group, in
\* registry order, with all its versions, whatever the folder holds.
C17_DownloadedOrManaged ==
    (query.op = "get_downloaded" /\ reply.kind = "Ok") =>
        /\ \A g \in DOMAIN reply.value :
              ~reply.value[g].managed =>
                  \A v \in DOMAIN reply.value[g].versions :
                      reply.value[g].versions[v].name \in local_folder
        /\ ManagedOnly(reply.value) = ManagedOnly(registry)

\* C17 witness: a managed group with a version that is not in the folder
\* was returned whole, next to an unmanaged group that lost one of its two
\* versions
C17_Witness ==
    /\ query.op = "get_downloaded" /\ reply.kind = "Ok"
    /\ Len(registry) = 2 /\ Len(reply.value) = 2
    /\ registry[1].managed /\ ~registry[2].managed
    /\ \E v \in DOMAIN registry[1].versions :
          registry[1].versions[v].name \notin local_folder
    /\ Len(registry[2].versions) = 2
    /\ Len(reply.value[2].versions) = 1

\* ------------------------------------------------------------------ C19

\* the groups that carry the name, as their own or as that of a version
Carrying(name) ==
    {g \in DOMAIN registry :
        \/ registry[g].name = name
        \/ \E v \in DOMAIN registry[g].versions :
              registry[g].versions[v].name = name}

\* C19: Group::find_in returns None exactly when no group and no version
\* carries the name, and otherwise the first group in registry order that
\* carries it, whole.
C19_FirstGroupCarryingTheName ==
    (query.op = "Group::find_in" /\ reply.kind = "Ok") =>
        /\ reply.value = None <=> Carrying(query.name) = {}
        /\ \A g \in Carrying(query.name) :
              (\A h \in Carrying(query.name) : g <= h) =>
                  reply.value = Some(registry[g])

\* C19 witness: the name is that of the second version of the second
\* group, while the first group carries neither; the second group came
\* back with both versions
C19_Witness ==
    /\ query.op = "Group::find_in" /\ reply.kind = "Ok"
    /\ Len(registry) = 2
    /\ Carrying(query.name) = {2}
    /\ registry[2].name # query.name
    /\ Len(registry[2].versions) = 2
    /\ registry[2].versions[1].name # query.name
    /\ reply.value = Some(registry[2])

\* ------------------------------------------------------------------ C20

\* the version file holds a space separator followed by a name
HasName(candidate) ==
    /\ candidate.version.readable
    /\ \E i \in DOMAIN candidate.version.text :
          /\ candidate.version.text[i] = " "
          /\ \A j \in 1 .. i - 1 : candidate.version.text[j] # " "
          /\ i < Len(candidate.version.text)

\* C20: a discovery run over readable search roots and candidates with
\* UTF-8 paths does not fail on account of a candidate whose version file
\* lacks a space separator followed by a name: it emits, in candidate
\* order, a version for exactly the candidates whose version file has one.
C20_BadVersionFilesAreSkipped ==
    (/\ query.op = "get_proton_installs_as_wines"
     /\ readable
     /\ \A k \in DOMAIN candidates : candidates[k].encoding = "utf8") =>
        /\ reply.kind = "Ok"
        /\ LET valid == SelectSeq(candidates, HasName)
               versions == reply.value[1].versions
           IN  /\ Len(versions) = Len(valid)
               /\ \A k \in DOMAIN valid :
                     versions[k].uri = trim(to_str(valid[k]).value)

\* ------------------------------------------------------------------ C21

\* a discovery run that returned Ok
Discovered ==
    /\ query.op = "get_proton_installs_as_wines"
    /\ reply.kind = "Ok"

\* one group, steam-proton, managed, whose versions are the candidates
\* with a name, in order, each managed and with the path of its directory
\* as uri
C21_GroupShape ==
    Discovered =>
        /\ Len(reply.value) = 1
        /\ reply.value[1].name = "steam-proton"
        /\ reply.value[1].managed
        /\ LET valid == SelectSeq(candidates, HasName)
               versions == reply.value[1].versions
           IN  /\ Len(versions) = Len(valid)
               /\ \A k \in DOMAIN valid :
                     /\ Some(versions[k].uri) = to_str(valid[k])
                     /\ versions[k].managed

\* the profile of a Proton runner as documented
DocumentedProfile(profile) ==
    /\ profile.bundle = "Proton"
    /\ profile.compact_launch
    /\ profile.command = "python3 '%build%/proton' waitforexitandrun"
    /\ profile.prefix_subdir = "pfx"

\* C21: a successful discovery returns exactly one group, steam-proton,
\* managed, whose versions are all and only the discovered builds, each
\* managed with uri its install directory, and whose features are bundle
\* Proton, compact_launch, the python3 proton command and prefix_subdir
\* "pfx".
C21_OneManagedProtonGroup ==
    /\ C21_GroupShape
    /\ Discovered =>
          /\ reply.value[1].features.some
          /\ DocumentedProfile(reply.value[1].features.value)

\* ------------------------------------------------------------------ C22

\* a discovery run was made
Ran == query.op = "get_proton_installs_as_wines"

\* C22: get_proton_installs_as_wines returns an error exactly when
\* Steam's own install cannot be located; whenever the install is
\* located it returns Ok, also when no Proton build is found.
C22_ErrorIffSteamNotLocated ==
    Ran => /\ reply.kind = "Err" <=> ~located
           /\ located => reply.kind = "Ok"

\* ------------------------------------------------------------------ C23

\* the three signals: a variable counts when it equals "1"
SteamEnv == environ["SteamEnv"] = Some("1")
SteamDeck == environ["SteamDeck"] = Some("1")
SteamOS == environ["SteamOS"] = Some("1")

\* the claim as stated: Deck whenever SteamEnv and SteamDeck are true
C23_Original ==
    /\ query.op = "environment" =>
          /\ reply.value = "Invalid" <=> ~SteamEnv
          /\ (SteamEnv /\ SteamDeck) => reply.value = "Deck"
    /\ query.op = "launched_from" =>
          (reply.value = "Steam" <=> SteamEnv)

\* C23: the detected environment is decided by the three signals alone:
\* Invalid exactly when SteamEnv is false; under SteamEnv it is Deck when
\* SteamOS and SteamDeck are true, OS when SteamOS is true and SteamDeck
\* false, Desktop when SteamOS is false; launched_from() is Steam exactly
\* when SteamEnv is true, else Independent.
C23_DetectedFromSignals ==
    /\ query.op = "environment" =>
          /\ reply.value = "Invalid" <=> ~SteamEnv
          /\ reply.value = "Deck" <=> (SteamEnv /\ SteamOS /\ SteamDeck)
          /\ reply.value = "OS" <=> (SteamEnv /\ SteamOS /\ ~SteamDeck)
          /\ reply.value = "Desktop" <=> (SteamEnv /\ ~SteamOS)
    /\ query.op = "launched_from" =>
          /\ reply.value = "Steam" <=> SteamEnv
          /\ reply.value = "Independent" <=> ~SteamEnv

\* under Steam on a machine flagged as Deck but not as SteamOS, with a
\* SteamOS variable that is set to something other than "1"
C23_Witness ==
    /\ query.op = "environment"
    /\ SteamEnv /\ SteamDeck
    /\ environ["SteamOS"] = Some("true")
    /\ reply.value = "Desktop"

\* ------------------------------------------------------------------ C24

\* the mirrors contacted by the call, in the order of contact
SyncCalls == SelectSeq(calls, LAMBDA c : c.op = "patch_sync")

\* every check that follows the sync step passed
ChecksAfterSyncHeld ==
    /\ Returned
    /\ PatchHeld
    /\ variant = "genshin" =>
          Answered("telemetry_is_disabled", {"None", "Err"})

\* C24: the patch mirrors are contacted in their configured order, no
\* mirror is contacted after the first one that succeeded, and a call
\* whose sync succeeded on any mirror, first or later, returns what the
\* checks after it decide: Launch for a Latest game when they all pass.
C24_MirrorsInOrderUntilSuccess ==
    /\ \A k \in DOMAIN SyncCalls :
          /\ SyncCalls[k].arg = k
          /\ SyncCalls[k].ans = "Ok" => k = Len(SyncCalls)
    /\ (Answered("patch_sync", {"Ok"}) /\ ChecksAfterSyncHeld) =>
          result.tag = IF GameLatest THEN "Launch"
                       ELSE "PredownloadAvailable"

\* C24 witness: the first mirror fails, the second succeeds, Launch
C24_Witness ==
    /\ Returned
    /\ variant = "genshin"
    /\ Len(SyncCalls) = 2
    /\ SyncCalls[1].ans = "Err"
    /\ SyncCalls[2].ans = "Ok"
    /\ params.use_patch
    /\ result.tag = "Launch"

\* ------------------------------------------------------------------ C25

\* the query the call made right after its last patch_sync, if any
AfterLastSync ==
    LET last == CHOOSE k \in DOMAIN calls :
                    /\ calls[k].op = "patch_sync"
                    /\ \A j \in DOMAIN calls :
                          calls[j].op = "patch_sync" => j <= k
    IN  IF last < Len(calls) THEN calls[last + 1].op ELSE "none"

\* the first query of the patch checks, or of the telemetry check when the
\* variant's patch check is switched off
FirstAfterSync ==
    CASE variant = "legacy" -> "unity_player_patch"
      [] variant = "genshin" /\ params.use_patch -> "player_patch"
      [] OTHER -> "telemetry_is_disabled"

\* every configured mirror was contacted and failed
AllMirrorsFailed ==
    /\ Len(SyncCalls) = params.servers
    /\ params.servers > 0
    /\ \A k \in DOMAIN SyncCalls : SyncCalls[k].ans = "Err"

\* C25: a failed patch sync is never surfaced: the call does not return on
\* a patch_sync answer, whatever it is, and once a sync failed, also when
\* every mirror failed, the call goes on with the patch checks, so a call
\* that returned made its next check right after the last sync.
C25_SyncFailureNotSurfaced ==
    Answered("patch_sync", {"Err"}) =>
        /\ AfterLastSync = "none" =>
              /\ ~Returned
              /\ AllMirrorsFailed => pc \in {"patch", "telemetry"}
        /\ Returned => AfterLastSync = FirstAfterSync

\* C25 witness: both mirrors failed and the call still launched
C25_Witness ==
    /\ Returned
    /\ params.servers = 2
    /\ AllMirrorsFailed
    /\ params.use_patch
    /\ result.tag = "Launch"

\* ------------------------------------------------------------------ C27

\* the provider queries whose failure is absorbed by the resolver
AbsorbedOps == {"telemetry_is_disabled", "patch_sync"}

\* the queries of the checks: the runner lookup and every query of get
CheckOps == ChecksOfGet \cup {"get_selected_wine"}

\* the k-th query of the call failed: an Err answer, or a voice package
\* that could not be constructed
FailedAt(k) ==
    \/ calls[k].ans = "Err"
    \/ calls[k].op = "voice_new" /\ calls[k].ans = "None"

\* the call returned an error right after its k-th query
ReturnedErrorAt(k) ==
    /\ Returned
    /\ result.tag = "Err"
    /\ k = Len(calls)

\* C27: a failed provider query (runner lookup, game diff, voice package
\* construction or diff, patch is_sync, patch lookup, is_applied, patch
\* metadata or version) makes the call return that error at once, with no
\* later query and no state produced; only a failed telemetry lookup and
\* a failed mirror sync do not make the call return an error.
C27_ProviderErrorsPropagate ==
    \A k \in DOMAIN calls :
        (calls[k].op \in CheckOps /\ FailedAt(k)) =>
            IF calls[k].op \in AbsorbedOps
              THEN ~ReturnedErrorAt(k)
              ELSE ReturnedErrorAt(k)

\* C27 witness: the second voice package's diff fails after a first
\* voice that was Latest
C27_Witness ==
    /\ Returned
    /\ result.tag = "Err"
    /\ Len(VoiceDiffs) = 2
    /\ VoiceDiffs[2].ans = "Err"
    /\ ~InvokedAny(PatchOps \cup TelemetryOps)

\* ------------------------------------------------------------------ C28

\* a selected voice reported Predownload
VoicePredownload == Answered("voice_try_get_diff", {"Predownload"})

\* every check of a genshin resolver passed; the legacy resolver has no
\* telemetry check
AllChecksHeld ==
    /\ Returned
    /\ PrefixHeld
    /\ VoicesHeld
    /\ PatchHeld
    /\ variant = "genshin" =>
          Answered("telemetry_is_disabled", {"None", "Err"})

\* C28: with a Latest game diff the Predownload diffs of voice packages
\* never surface: when every check passes the result is Launch, carrying
\* no diff, also when selected voices reported Predownload; and a
\* PredownloadAvailable result is only returned for a game diff that is
\* itself Predownload.
C28_VoicePredownloadHiddenByLatestGame ==
    variant \in {"genshin", "legacy"} =>
        /\ (GameLatest /\ AllChecksHeld) => result = State("Launch")
        /\ result.tag = "PredownloadAvailable" =>
              Answered("game_try_get_diff", {"Predownload"})

\* C28 witness: the game is Latest, both voices report Predownload, Launch
C28_Witness ==
    /\ variant = "genshin"
    /\ GameLatest
    /\ Len(VoiceDiffs) = 2
    /\ VoiceDiffs[1].ans = "Predownload"
    /\ VoiceDiffs[2].ans = "Predownload"
    /\ result = State("Launch")

\* ------------------------------------------------------------------ C30

\* the folder of the selected runner was looked up under the builds folder
\* and does not exist
BuildsMissing == Answered("builds_exists", {"false"})

\* the runner check of get_from_config as claimed, for the call at hand
RunnerCheck ==
    entry = "get_from_config" =>
        /\ (params.selected = "Unmanaged" /\ BuildsMissing) =>
              /\ Returned
              /\ result.tag = "WineNotInstalled"
              /\ ~InvokedAny(ChecksOfGet)
        /\ (params.selected = "Managed" /\ BuildsMissing) =>
              result.tag # "WineNotInstalled"

\* the claim holds in games/genshin and in the legacy genshin resolver
C30_GenshinRunnerCheck == variant \in {"genshin", "legacy"} => RunnerCheck

\* C30: get_from_config returns WineNotInstalled, before any other check,
\* when the selected runner is not managed and its folder is missing
\* under the builds folder; a managed selected runner never yields
\* WineNotInstalled on account of a missing builds subfolder.
C30_MissingUnmanagedRunner == RunnerCheck

\* ------------------------------------------------------------------ C29

\* every load that had returned when load j made its lookup had failed
OnlyFailuresBefore(j) ==
    /\ loads[j].since > 0
    /\ \A h \in 1 .. loads[j].since : ~Succeeded(h)

\* C29: only successful loads are memoized: a load answered from the
\* cache is never a failure, and a load made after nothing but failed
\* loads misses the cache, reads the catalog again and returns what the
\* catalog then on disk loads to, the list itself once it is well-formed.
C29_FailuresAreNotMemoized ==
    \A j \in DOMAIN loads :
        /\ loads[j].hit => Succeeded(j)
        /\ OnlyFailuresBefore(j) =>
              /\ ~loads[j].hit
              /\ loads[j].result = read_catalog(loads[j].read)

\* C29 witness: a load failed, the catalog was repaired, and the next
\* load read it and succeeded
C29_Witness ==
    /\ Len(loads) > 1
    /\ ~Succeeded(1)
    /\ loads[2].since = 1
    /\ loads[2].read # loads[1].read
    /\ ~loads[2].hit
    /\ Succeeded(2)

\* ------------------------------------------------------------------ C26

\* a call of ComponentsLoader::get_wine_versions returned a list
Listed ==
    /\ query.op = "ComponentsLoader::get_wine_versions"
    /\ reply.kind = "Ok"

\* C26: launched from Steam (SteamEnv = "1"), get_wine_versions never
\* enters the catalog loader and a list it returns is the one steam-proton
\* group, managed; launched otherwise it returns what the cached loader
\* returns, the memoized list or what the catalog it read loads to, a
\* list of catalog groups that are all unmanaged, as are their versions.
C26_SteamBypassesCatalog ==
    query.op = "ComponentsLoader::get_wine_versions" =>
        IF SteamEnv
          THEN /\ \A t \in Threads : threads[t].pc = "idle"
               /\ loads = <<>>
               /\ Listed =>
                     /\ Len(reply.value) = 1
                     /\ reply.value[1].name = "steam-proton"
                     /\ reply.value[1].managed
                     /\ \A v \in DOMAIN reply.value[1].versions :
                           reply.value[1].versions[v].managed
          ELSE /\ reply # NoReply =>
                     /\ Len(loads) = 1
                     /\ reply = loads[1].result
                     /\ loads[1].hit \/ reply = read_catalog(loads[1].read)
               /\ Listed =>
                     \A g \in DOMAIN reply.value :
                         /\ reply.value[g].name # "steam-proton"
                         /\ ~reply.value[g].managed
                         /\ \A v \in DOMAIN reply.value[g].versions :
                               ~reply.value[g].versions[v].managed

\* C26 witness: launched from Steam with one Proton build found while the
\* catalog on disk holds two versions
C26_Witness ==
    /\ Listed
    /\ SteamEnv
    /\ read_catalog(disk).kind = "Ok"
    /\ Len(read_catalog(disk).value[1].versions) = 2
    /\ Len(reply.value[1].versions) = 1
    /\ loads = <<>>

====
